---- MODULE Spec2Model ----
(***************************************************************************)
(* Model of the shadow proof-orchestration server (packages/server):       *)
(* the single-slot ProofQueue, the start_proof / cancel_job handlers, the  *)
(* spawned proof task with run_pipeline, and the workspace handlers.       *)
(*                                                                         *)
(* Handlers run on a multi-threaded tokio runtime, so a handler is cut     *)
(* into one action per access to shared state (the `current` mutex, the    *)
(* `cancel_tx` mutex, the oneshot cancel channel, the workspace files and  *)
(* the broadcast channel).  Purely local computation between two such      *)
(* accesses is folded into the following action.                           *)
(***************************************************************************)
EXTENDS Integers, Sequences, FiniteSets, TLC

\* ------------------------------------------------------------------ bounds
MaxProve == 2      \* POST /deposits/{id}/prove requests issued in a run
MaxCancel == 2     \* DELETE /queue/current requests issued in a run
MaxFsReq == 1      \* deposit create / delete / proof delete requests in a run
MaxReq == 3        \* requests of all kinds issued in a run
MaxTs == 1         \* timestamp_now() returns a second in 0..MaxTs (a wall clock, not monotonic)

NoPid == 0
NoProof == -1

\* ------------------------------------------------------------ the universe
Deposits == {"dA", "dB", "dC"}
MAX_NOTES == 5
\* notes.len() of each deposit file of the universe (1..MAX_NOTES)
NoteCountOf(d) == IF d = "dA" THEN 2 ELSE 1

Pids == 1..MaxProve
Cids == 1..MaxCancel

VARIABLES
  current,       \* ProofQueue.current : Option<ProofJob>
  slotOwner,     \* history: the start_proof request whose enqueue filled the slot
  cancel_tx,     \* ProofQueue.cancel_tx : Option<oneshot::Sender>, named by its pipeline
  cancelLock,    \* holder of the cancel_tx mutex inside cancel(), or NoPid
  chan,          \* per pipeline: state of its oneshot cancel channel
  sp,            \* per request: the start_proof handler
  pipe,          \* per request: the spawned proof task (run_pipeline and its tail)
  cj,            \* per request: the cancel_job handler
  depositFiles,  \* workspace: deposit files present
  proofFiles,    \* workspace: proof files (.json) and backups (.bkup)
  events,        \* what each task sent on event_tx (0: the workspace handlers)
  dirtyBy,       \* history: file mutations not yet followed by workspace:changed
  fsReqs,        \* workspace requests issued so far
  input,         \* shadow-proof-core: the function called and its arguments
  output         \* shadow-proof-core: what the call returned

serverVars == <<current, slotOwner, cancel_tx, cancelLock, chan, sp, pipe, cj,
                depositFiles, proofFiles, events, dirtyBy, fsReqs>>

coreVars == <<input, output>>

vars == <<serverVars, coreVars>>

queueVars == <<current, slotOwner, cancel_tx, cancelLock, chan>>
fsVars == <<depositFiles, proofFiles>>

\* --------------------------------------------------------------- ProofJob
NoJob == [status |-> "None"]

Msg(text, n, detail) == [text |-> text, note |-> n, detail |-> detail]

ProofJobNew(deposit_id, total_notes) ==
  [deposit_id |-> deposit_id, status |-> "Queued", current_note |-> 0,
   total_notes |-> total_notes, message |-> Msg("Queued for proving", 0, "None"),
   error |-> "None"]

Terminal == {"Completed", "Failed", "Cancelled"}

\* a faulty enqueue that refuses a Running job only
EnqueueAllowedUnlessRunning(cur) == cur = NoJob \/ cur.status # "Running"

\* enqueue: the slot may be (over)written unless its job is Running or Queued
EnqueueAllowed(cur) == cur = NoJob \/ cur.status \notin {"Running", "Queued"}

\* update_progress: status forced to Running, current_note and message set
UpdateProgressJob(job, current_note, text) ==
  [job EXCEPT !.status = "Running", !.current_note = current_note,
              !.message = Msg(text, current_note, "None")]

\* complete: status Completed, message names the proof file
CompleteJob(job, proof_ts) ==
  [job EXCEPT !.status = "Completed",
              !.message = Msg("Proof generated", proof_ts, "None")]

\* fail: status Failed, error set, message "Failed at note {note_index}: {error}"
FailJob(job, note_index, error) ==
  [job EXCEPT !.status = "Failed", !.error = error,
              !.message = Msg("Failed at note", note_index, error)]

\* cancel: status Cancelled, message "Cancelled by user"
CancelJob(job) ==
  [job EXCEPT !.status = "Cancelled",
              !.message = Msg("Cancelled by user", 0, "None")]

\* ----------------------------------------------------------------- events
\* a message of event_tx: its type, noteIndex and message / error / proofFile, and
\* (history) the task that sent it; its depositId, read from the slot, is left out
Ev(type, noteIndex, detail, by) ==
  [type |-> type, noteIndex |-> noteIndex, detail |-> detail, proofFile |-> NoProof,
   by |-> by]

WorkspaceChanged(by) == Ev("workspace:changed", 0, "None", by)

\* -------------------------------------------------------------- workspace
ProofFile(stem, ts, ext, notes, by) ==
  [stem |-> stem, ts |-> ts, ext |-> ext, notes |-> notes, by |-> by]

SameName(f, stem, ts, ext) == f.stem = stem /\ f.ts = ts /\ f.ext = ext

IsFile(files, stem, ts, ext) == \E f \in files : SameName(f, stem, ts, ext)

\* scan_workspace: the lexicographically greatest proof filename of the stem
\* (the timestamp is the only varying part), or NoProof
ScanProofFile(files, stem) ==
  LET tss == {f.ts : f \in {g \in files : g.stem = stem /\ g.ext = "json"}}
  IN IF tss = {} THEN NoProof
     ELSE CHOOSE t \in tss : \A u \in tss : u <= t

\* std::fs::rename(path, path.with_extension("bkup")): replaces the target
RenameToBkup(files, stem, ts) ==
  LET src == CHOOSE f \in files : SameName(f, stem, ts, "json")
  IN ({f \in files : ~SameName(f, stem, ts, "json") /\ ~SameName(f, stem, ts, "bkup")})
       \cup {[src EXCEPT !.ext = "bkup"]}

\* std::fs::write(path, bytes): creates or replaces the file
WriteProof(files, stem, ts, notes, by) ==
  {f \in files : ~SameName(f, stem, ts, "json")}
    \cup {ProofFile(stem, ts, "json", notes, by)}

RemoveProof(files, stem, ts) == {f \in files : ~SameName(f, stem, ts, "json")}

\* ------------------------------------------------------------------- Init
SpNew == [pc |-> "new", deposit |-> "None", force |-> FALSE, note_count |-> 0,
          existing_proof |-> NoProof, resp |-> "none"]

\* sentAt and cancel_returned are history: the note at work when the signal was
\* sent, and whether cancel() returned true before run_pipeline returned
PipeIdle == [pc |-> "idle", i |-> 0, note_count |-> 0, results |-> <<>>,
             err |-> "None", proof_ts |-> NoProof, sentAt |-> -1,
             cancel_returned |-> FALSE]

CjNew == [pc |-> "new", resp |-> "none"]

InitServer ==
  /\ current = NoJob
  /\ slotOwner = NoPid
  /\ cancel_tx = NoPid
  /\ cancelLock = NoPid
  /\ chan = [p \in Pids |-> "none"]
  /\ sp = [p \in Pids |-> SpNew]
  /\ pipe = [p \in Pids |-> PipeIdle]
  /\ cj = [c \in Cids |-> CjNew]
  /\ depositFiles = {"dA", "dB"}
  /\ proofFiles = {ProofFile("dA", 0, "json", <<0, 1>>, NoPid)}
  /\ events = [p \in {NoPid} \cup Pids |-> {}]
  /\ dirtyBy = {}
  /\ fsReqs = 0

\* no call of shadow-proof-core is modelled in the server's specifications
NoCall == [fn |-> "none"]

Init == InitServer /\ input = NoCall /\ output = NoCall


\* requests issued so far; a new request is accepted while below MaxReq
Issued == Cardinality({p \in Pids : sp[p].pc # "new"})
            + Cardinality({c \in Cids : cj[c].pc # "new"}) + fsReqs

\* ------------------------------------------------- ProofQueue, as called
\* broadcast_event / event_tx.send.  The channel is recorded per sender, as
\* the set of messages sent, of which the latest proof:note_progress only is kept
BroadcastEvent(log, e) ==
  [log EXCEPT ![e.by] =
     (IF e.type = "proof:note_progress"
      THEN {x \in @ : x.type # "proof:note_progress"} ELSE @) \cup {e}]

\* update_progress(current_note, message, extra) under the `current` mutex
QueueUpdateProgress(p, current_note, text) ==
  IF current # NoJob
  THEN /\ current' = UpdateProgressJob(current, current_note, text)
       /\ events' = BroadcastEvent(events, Ev("proof:note_progress", current_note, text, p))
  ELSE UNCHANGED <<current, events>>

\* fail(note_index, error) under the `current` mutex
QueueFail(p, note_index, error) ==
  IF current # NoJob
  THEN /\ current' = FailJob(current, note_index, error)
       /\ events' = BroadcastEvent(events, Ev("proof:failed", note_index, error, p))
  ELSE UNCHANGED <<current, events>>

\* complete(proof_file, elapsed) under the `current` mutex
QueueComplete(p, proof_ts) ==
  IF current # NoJob
  THEN /\ current' = CompleteJob(current, proof_ts)
       /\ events' = BroadcastEvent(events, [Ev("proof:completed", 0, "None", p)
                                        EXCEPT !.proofFile = proof_ts])
  ELSE UNCHANGED <<current, events>>

\* ------------------------------------------------------------ start_proof
\* scan_workspace, the 404, the force=true rename and the captured values
StartProofBegin(p, d, force) ==
  /\ sp[p].pc = "new"
  /\ Issued < MaxReq
  \* force=true differs from force=false only when the scan finds a proof file
  /\ force => (d \in depositFiles /\ ScanProofFile(proofFiles, d) # NoProof)
  /\ IF p = 1 THEN TRUE ELSE sp[p - 1].pc # "new"
  /\ IF d \notin depositFiles
     THEN /\ sp' = [sp EXCEPT ![p] = [@ EXCEPT !.pc = "done", !.deposit = d,
                                               !.force = force, !.resp = "404"]]
          /\ UNCHANGED <<proofFiles, dirtyBy>>
     ELSE LET pf == ScanProofFile(proofFiles, d) IN
          /\ sp' = [sp EXCEPT ![p] = [@ EXCEPT !.pc = "enqueue", !.deposit = d,
                                               !.force = force,
                                               !.note_count = NoteCountOf(d),
                                               !.existing_proof = pf]]
          /\ IF force /\ pf # NoProof
             THEN \E renameFails \in BOOLEAN :
                    IF ~renameFails
                    THEN /\ proofFiles' = RenameToBkup(proofFiles, d, pf)
                         /\ dirtyBy' = dirtyBy \cup {<<"force_rename", p>>}
                    ELSE UNCHANGED <<proofFiles, dirtyBy>>
             ELSE UNCHANGED <<proofFiles, dirtyBy>>
  /\ UNCHANGED <<queueVars, pipe, cj, depositFiles, events, fsReqs, coreVars>>

\* proof_queue.enqueue(&deposit_id, note_count), mapped to 409 on Err
StartProofEnqueue(p) ==
  /\ sp[p].pc = "enqueue"
  /\ IF EnqueueAllowed(current)
     THEN /\ current' = ProofJobNew(sp[p].deposit, sp[p].note_count)
          /\ slotOwner' = p
          /\ events' = BroadcastEvent(events, Ev("proof:started", 0, "None", p))
          /\ sp' = [sp EXCEPT ![p].pc = "set_tx"]
     ELSE /\ sp' = [sp EXCEPT ![p] = [@ EXCEPT !.pc = "done", !.resp = "409"]]
          /\ UNCHANGED <<current, slotOwner, events>>
  /\ UNCHANGED <<cancel_tx, cancelLock, chan, pipe, cj, fsVars, dirtyBy, fsReqs, coreVars>>

\* oneshot::channel(), queue.set_cancel_tx(cancel_tx) and tokio::spawn
StartProofSetCancelTx(p) ==
  /\ sp[p].pc = "set_tx"
  /\ cancelLock = NoPid
  /\ cancel_tx' = p
  /\ chan' = [q \in Pids |->
                IF q = p THEN "open"
                ELSE IF q = cancel_tx /\ chan[q] = "open" THEN "closed"
                ELSE chan[q]]
  /\ pipe' = [pipe EXCEPT ![p].pc = "load"]
  /\ sp' = [sp EXCEPT ![p].pc = "status"]
  /\ UNCHANGED <<current, slotOwner, cancelLock, cj, fsVars, events, dirtyBy, fsReqs, coreVars>>

\* state.proof_queue.status().await.unwrap()
StartProofStatus(p) ==
  /\ sp[p].pc = "status"
  /\ sp' = [sp EXCEPT ![p] = [@ EXCEPT !.pc = "done",
                                       !.resp = IF current = NoJob THEN "panic" ELSE "200"]]
  /\ UNCHANGED <<queueVars, pipe, cj, fsVars, events, dirtyBy, fsReqs, coreVars>>

\* ------------------------------------------------------------- cancel_job
\* a pipeline between its spawn and the return of run_pipeline
Executing(p) == pipe[p].pc \in {"load", "progress_rpc_block",
                                "progress_rpc_proof", "check_cancel",
                                "progress_proving", "select", "progress_note_complete"}

\* cancel(): lock cancel_tx, take() the sender and send (), or find it None
CancelJobTake(c) ==
  /\ cj[c].pc = "new"
  /\ Issued < MaxReq
  /\ IF c = 1 THEN TRUE ELSE cj[c - 1].pc # "new"
  /\ cancelLock = NoPid
  /\ IF cancel_tx # NoPid
     THEN /\ cancel_tx' = NoPid
          /\ chan' = [chan EXCEPT ![cancel_tx] = "sent"]
          /\ pipe' = [pipe EXCEPT ![cancel_tx].sentAt =
                        IF Executing(cancel_tx) THEN pipe[cancel_tx].i ELSE @]
          /\ cancelLock' = c
          /\ cj' = [cj EXCEPT ![c].pc = "mark"]
     ELSE /\ cj' = [cj EXCEPT ![c].pc = "clear"]
          /\ UNCHANGED <<cancel_tx, chan, pipe, cancelLock>>
  /\ UNCHANGED <<current, slotOwner, sp, fsVars, events, dirtyBy, fsReqs, coreVars>>

\* cancel(), second half: lock current, mark the job Cancelled, return true
CancelJobMark(c) ==
  /\ cj[c].pc = "mark"
  /\ current' = IF current # NoJob THEN CancelJob(current) ELSE current
  /\ cancelLock' = NoPid
  /\ cj' = [cj EXCEPT ![c] = [@ EXCEPT !.pc = "done", !.resp = "cancellation signal sent"]]
  /\ pipe' = [p \in Pids |->
                IF chan[p] = "sent" /\ Executing(p)
                THEN [pipe[p] EXCEPT !.cancel_returned = TRUE] ELSE pipe[p]]
  /\ UNCHANGED <<slotOwner, cancel_tx, chan, sp, fsVars, events, dirtyBy, fsReqs, coreVars>>

\* cancel() returned false: proof_queue.clear()
CancelJobClear(c) ==
  /\ cj[c].pc = "clear"
  /\ current' = NoJob
  /\ slotOwner' = NoPid
  /\ cj' = [cj EXCEPT ![c] = [@ EXCEPT !.pc = "done", !.resp = "job cleared"]]
  /\ UNCHANGED <<cancel_tx, cancelLock, chan, sp, pipe, fsVars, events, dirtyBy, fsReqs, coreVars>>


\* ----------------------------------------------- the spawned proof task
Bail(p, error) == [pipe EXCEPT ![p] = [@ EXCEPT !.pc = "task_err", !.err = error]]

\* a faulty loop that steps over every other note
NextNoteSkipping(i) == i + 2

\* the index the loop `for i in 0..note_count` proves after note i
NextNote(i) == i + 1

\* a faulty result numbered from 1
NoteProofResultOneBased(i) == i + 1

\* NoteProofResult { note_index: i as u32, .. }
NoteProofResult(i) == i

\* step 1: read and validate the deposit file; the read fails when the file is
\* gone, and may fail otherwise (an I/O error, a file edited since the scan)
PipeLoad(p, ok) ==
  /\ pipe[p].pc = "load"
  /\ IF ok /\ sp[p].deposit \in depositFiles
     THEN pipe' = [pipe EXCEPT ![p] = [@ EXCEPT !.pc = "progress_rpc_block",
                                               !.note_count = NoteCountOf(sp[p].deposit)]]
     ELSE pipe' = Bail(p, "deposit")
  /\ UNCHANGED <<queueVars, sp, cj, fsVars, events, dirtyBy, fsReqs, coreVars>>

\* update_progress(0, "Fetching block data from chain..."), then eth_chain_id,
\* the chain id comparison and eth_get_block
PipeProgressRpcBlock(p, ok) ==
  /\ pipe[p].pc = "progress_rpc_block"
  /\ QueueUpdateProgress(p, 0, "rpc_block")
  /\ pipe' = IF ok THEN [pipe EXCEPT ![p].pc = "progress_rpc_proof"] ELSE Bail(p, "rpc")
  /\ UNCHANGED <<slotOwner, cancel_tx, cancelLock, chan, sp, cj, fsVars, dirtyBy, fsReqs, coreVars>>

\* update_progress(0, "Fetching account proof from Merkle tree..."), then
\* eth_get_proof and the empty-proof check; the loop starts at i = 0
PipeProgressRpcProof(p, ok) ==
  /\ pipe[p].pc = "progress_rpc_proof"
  /\ QueueUpdateProgress(p, 0, "rpc_proof")
  /\ pipe' = IF ok THEN [pipe EXCEPT ![p].pc = "check_cancel"] ELSE Bail(p, "rpc")
  /\ UNCHANGED <<slotOwner, cancel_tx, cancelLock, chan, sp, cj, fsVars, dirtyBy, fsReqs, coreVars>>

\* cancel_rx.try_recv().is_ok(): only a sent value counts, a closed channel does not
PipeCheckCancel(p) ==
  /\ pipe[p].pc = "check_cancel"
  /\ IF chan[p] = "sent"
     THEN pipe' = Bail(p, "cancelled")
     ELSE pipe' = [pipe EXCEPT ![p].pc = "progress_proving"]
  /\ UNCHANGED <<queueVars, sp, cj, fsVars, events, dirtyBy, fsReqs, coreVars>>

\* update_progress(i, "Proving note i+1/n")
PipeProgressProving(p) ==
  /\ pipe[p].pc = "progress_proving"
  /\ QueueUpdateProgress(p, pipe[p].i, "proving")
  /\ pipe' = [pipe EXCEPT ![p].pc = "select"]
  /\ UNCHANGED <<slotOwner, cancel_tx, cancelLock, chan, sp, cj, fsVars, dirtyBy, fsReqs, coreVars>>

\* build_claim_input, then select! { prove_single_note, &mut cancel_rx }:
\* the prover ends Ok or Err; the cancel branch is ready once a value was sent
\* or the sender was dropped; when both are ready either branch may be taken
PipeSelect(p, outcome) ==
  /\ pipe[p].pc = "select"
  /\ \/ /\ outcome = "proved"
        /\ pipe' = [pipe EXCEPT ![p].pc = "progress_note_complete"]
     \/ /\ outcome = "prover_err"
        /\ pipe' = Bail(p, "prover")
     \/ /\ outcome = "cancel"
        /\ chan[p] \in {"sent", "closed"}
        /\ pipe' = Bail(p, "cancelled")
  /\ UNCHANGED <<queueVars, sp, cj, fsVars, events, dirtyBy, fsReqs, coreVars>>

\* update_progress(i, "Note i+1/n proved"), note_results.push, next iteration
PipeProgressNoteComplete(p) ==
  /\ pipe[p].pc = "progress_note_complete"
  /\ QueueUpdateProgress(p, pipe[p].i, "note_complete")
  /\ pipe' = [pipe EXCEPT ![p] =
               [@ EXCEPT !.results = Append(@, NoteProofResult(pipe[p].i)),
                         !.i = NextNote(pipe[p].i),
                         !.pc = IF NextNote(pipe[p].i) < pipe[p].note_count
                                THEN "check_cancel" ELSE "task_ok"]]
  /\ UNCHANGED <<slotOwner, cancel_tx, cancelLock, chan, sp, cj, fsVars, dirtyBy, fsReqs, coreVars>>

\* Err(e) => queue.fail(0, &detail)
TaskErr(p) ==
  /\ pipe[p].pc = "task_err"
  /\ QueueFail(p, 0, pipe[p].err)
  /\ pipe' = [pipe EXCEPT ![p].pc = "done"]
  /\ UNCHANGED <<slotOwner, cancel_tx, cancelLock, chan, sp, cj, fsVars, dirtyBy, fsReqs, coreVars>>

\* Ok(bundled): rename the captured old proof to .bkup, then write the new file
\* named by timestamp_now(); either file operation may fail
TaskWriteProof(p, renameFails, written, ts) ==
  /\ pipe[p].pc = "task_ok"
  /\ LET d == sp[p].deposit
         old == sp[p].existing_proof
         doRename == old # NoProof /\ IsFile(proofFiles, d, old, "json")
         renamed == doRename /\ ~renameFails
         afterRename == IF renamed THEN RenameToBkup(proofFiles, d, old) ELSE proofFiles
     IN /\ renameFails => doRename
        /\ proofFiles' = IF written
                         THEN WriteProof(afterRename, d, ts, pipe[p].results, p)
                         ELSE afterRename
        /\ dirtyBy' = IF written \/ renamed
                      THEN dirtyBy \cup {<<"proof_write", p>>} ELSE dirtyBy
        /\ pipe' = [pipe EXCEPT ![p] = IF written
                                       THEN [@ EXCEPT !.pc = "task_complete", !.proof_ts = ts]
                                       ELSE [@ EXCEPT !.pc = "task_write_err", !.err = "write"]]
  /\ UNCHANGED <<queueVars, sp, cj, depositFiles, events, fsReqs, coreVars>>

\* std::fs::write failed: queue.fail(0, "failed to write proof file")
TaskWriteErr(p) ==
  /\ pipe[p].pc = "task_write_err"
  /\ QueueFail(p, 0, "write")
  /\ pipe' = [pipe EXCEPT ![p].pc = "done"]
  /\ UNCHANGED <<slotOwner, cancel_tx, cancelLock, chan, sp, cj, fsVars, dirtyBy, fsReqs, coreVars>>

\* queue.complete(&proof_filename, elapsed)
TaskComplete(p) ==
  /\ pipe[p].pc = "task_complete"
  /\ QueueComplete(p, pipe[p].proof_ts)
  /\ pipe' = [pipe EXCEPT ![p].pc = "task_ws"]
  /\ UNCHANGED <<slotOwner, cancel_tx, cancelLock, chan, sp, cj, fsVars, dirtyBy, fsReqs, coreVars>>

\* event_tx.send(workspace:changed)
TaskWorkspaceChanged(p) ==
  /\ pipe[p].pc = "task_ws"
  /\ events' = BroadcastEvent(events, WorkspaceChanged(p))
  /\ dirtyBy' = {}
  /\ pipe' = [pipe EXCEPT ![p].pc = "done"]
  /\ UNCHANGED <<queueVars, sp, cj, fsVars, fsReqs, coreVars>>


\* ----------------------------------------------------- workspace handlers
\* create_deposit: mine, write_deposit_file, then workspace:changed; a failed
\* mining or write returns 500 before anything is written
CreateDeposit(d, ok) ==
  /\ fsReqs < MaxFsReq
  /\ Issued < MaxReq
  /\ d \notin depositFiles
  /\ fsReqs' = fsReqs + 1
  /\ IF ok
     THEN /\ depositFiles' = depositFiles \cup {d}
          /\ events' = BroadcastEvent(events, WorkspaceChanged(NoPid))
          /\ dirtyBy' = {}
     ELSE UNCHANGED <<depositFiles, events, dirtyBy>>
  /\ UNCHANGED <<queueVars, sp, pipe, cj, proofFiles, coreVars>>

\* delete_deposit: remove the deposit file, optionally the correlated proof
\* file, then workspace:changed; a failed remove_file returns 500 at once
DeleteDeposit(d, include_proof, ok1, ok2) ==
  /\ fsReqs < MaxFsReq
  /\ Issued < MaxReq
  /\ d \in depositFiles
  /\ fsReqs' = fsReqs + 1
  /\ LET pf == ScanProofFile(proofFiles, d)
         second == ok1 /\ include_proof /\ pf # NoProof
     IN /\ (~second) => ok2
        /\ depositFiles' = IF ok1 THEN depositFiles \ {d} ELSE depositFiles
        /\ proofFiles' = IF second /\ ok2 THEN RemoveProof(proofFiles, d, pf) ELSE proofFiles
        /\ IF ok1 /\ ok2
           THEN /\ events' = BroadcastEvent(events, WorkspaceChanged(NoPid))
                /\ dirtyBy' = {}
           ELSE /\ events' = events
                /\ dirtyBy' = IF ok1 THEN dirtyBy \cup {<<"delete_deposit", 0>>} ELSE dirtyBy
  /\ UNCHANGED <<queueVars, sp, pipe, cj, coreVars>>

\* delete_proof: remove the correlated proof file, then workspace:changed
DeleteProof(d, ok) ==
  /\ fsReqs < MaxFsReq
  /\ Issued < MaxReq
  /\ d \in depositFiles
  /\ ScanProofFile(proofFiles, d) # NoProof
  /\ fsReqs' = fsReqs + 1
  /\ IF ok
     THEN /\ proofFiles' = RemoveProof(proofFiles, d, ScanProofFile(proofFiles, d))
          /\ events' = BroadcastEvent(events, WorkspaceChanged(NoPid))
          /\ dirtyBy' = {}
     ELSE UNCHANGED <<proofFiles, events, dirtyBy>>
  /\ UNCHANGED <<queueVars, sp, pipe, cj, depositFiles, coreVars>>

\* ------------------------------------------------------------------- Next
StartProofStep(Forces) ==
  \/ \E p \in Pids, d \in Deposits, force \in Forces : StartProofBegin(p, d, force)
  \/ \E p \in Pids : StartProofEnqueue(p)
  \/ \E p \in Pids : StartProofSetCancelTx(p)
  \/ \E p \in Pids : StartProofStatus(p)

CancelJobStep ==
  \/ \E c \in Cids : CancelJobTake(c)
  \/ \E c \in Cids : CancelJobMark(c)
  \/ \E c \in Cids : CancelJobClear(c)

TaskStep(RenameFails) ==
  \/ \E p \in Pids, ok \in BOOLEAN : PipeLoad(p, ok)
  \/ \E p \in Pids, ok \in BOOLEAN : PipeProgressRpcBlock(p, ok)
  \/ \E p \in Pids, ok \in BOOLEAN : PipeProgressRpcProof(p, ok)
  \/ \E p \in Pids : PipeCheckCancel(p)
  \/ \E p \in Pids : PipeProgressProving(p)
  \/ \E p \in Pids, outcome \in {"proved", "prover_err", "cancel"} : PipeSelect(p, outcome)
  \/ \E p \in Pids : PipeProgressNoteComplete(p)
  \/ \E p \in Pids : TaskErr(p)
  \/ \E p \in Pids, renameFails \in RenameFails, written \in BOOLEAN, ts \in 0..MaxTs :
       TaskWriteProof(p, renameFails, written, ts)
  \/ \E p \in Pids : TaskWriteErr(p)
  \/ \E p \in Pids : TaskComplete(p)
  \/ \E p \in Pids : TaskWorkspaceChanged(p)

WorkspaceStep ==
  \/ \E d \in Deposits, ok \in BOOLEAN : CreateDeposit(d, ok)
  \/ \E d \in Deposits, ip \in BOOLEAN, ok1 \in BOOLEAN, ok2 \in BOOLEAN :
       DeleteDeposit(d, ip, ok1, ok2)
  \/ \E d \in Deposits, ok \in BOOLEAN : DeleteProof(d, ok)

\* the proof queue: prove requests without force, cancel requests and the proof
\* tasks, whose rename of the old proof file succeeds
Next == StartProofStep({FALSE}) \/ CancelJobStep \/ TaskStep({FALSE})

Spec == Init /\ [][Next]_vars

\* what the runtime goes on with once a request was received: the rest of a
\* handler, whose mutexes are released after finitely many steps, and the
\* spawned tasks, whose RPC calls and prover invocations return
Progress ==
  \/ \E p \in Pids : StartProofEnqueue(p) \/ StartProofSetCancelTx(p) \/ StartProofStatus(p)
  \/ \E c \in Cids : CancelJobMark(c) \/ CancelJobClear(c)
  \/ TaskStep({FALSE})

\* the proof queue under a runtime that lets no handler and no task wait forever
SpecLive == Init /\ [][Next]_vars /\ WF_vars(Progress)

\* the workspace: prove requests, the proof tasks and the workspace handlers
NextWorkspace == StartProofStep(BOOLEAN) \/ TaskStep(BOOLEAN) \/ WorkspaceStep

SpecWorkspace == Init /\ [][NextWorkspace]_vars

\* ============================================== shadow-proof-core (lib.rs)
\* Byte strings are sequences over 0..255.  An unsigned integer of a fixed
\* width (u64, u128, a 256-bit balance) is held as the sequence of its
\* big-endian digits in base 256, most significant first.

\* [b; n]
Fill(n, b) == [i \in 1..n |-> b]

\* the bytes of s in reverse order
Reverse(s) == [i \in 1..Len(s) |-> s[Len(s) + 1 - i]]

\* a faulty to_le_bytes that keeps the big-endian order
ToBeBytes(n) == n

\* n.to_le_bytes(): least significant byte first
ToLeBytes(n) == Reverse(n)

\* uN::from_le_bytes(bytes)
FromLeBytes(bytes) == Reverse(bytes)

\* bytes[from..to] of Rust, for bounds already checked
Slice(bytes, from, to) == SubSeq(bytes, from + 1, to)

PACKED_JOURNAL_LEN == 116

ClaimJournal(block_number, block_hash, chain_id, amount, recipient, nullifier) ==
  [block_number |-> block_number, block_hash |-> block_hash, chain_id |-> chain_id,
   amount |-> amount, recipient |-> recipient, nullifier |-> nullifier]

pack_journal(journal) ==
  ToLeBytes(journal.block_number) \o journal.block_hash \o ToLeBytes(journal.chain_id)
    \o ToLeBytes(journal.amount) \o journal.recipient \o journal.nullifier

\* PackedJournalError::invalid_length(actual)
PackedJournalError(actual) ==
  [ok |-> FALSE, expected |-> PACKED_JOURNAL_LEN, actual |-> actual]

unpack_journal(bytes) ==
  IF Len(bytes) # PACKED_JOURNAL_LEN
  THEN PackedJournalError(Len(bytes))
  ELSE [ok |-> TRUE,
        val |-> ClaimJournal(FromLeBytes(Slice(bytes, 0, 8)),
                             Slice(bytes, 8, 40),
                             FromLeBytes(Slice(bytes, 40, 48)),
                             FromLeBytes(Slice(bytes, 48, 64)),
                             Slice(bytes, 64, 84),
                             Slice(bytes, 84, 116))]

\* ---------------------------------------------------- inputs: the journals
\* 1, 2, ..., n
Ramp(n) == [i \in 1..n |-> i]

\* the n-byte unsigned integer whose two low bytes are hi and lo
Small(n, hi, lo) == [i \in 1..n |-> IF i = n THEN lo ELSE IF i = n - 1 THEN hi ELSE 0]

SampleU64 == {Fill(8, 0), Small(8, 1, 2), Ramp(8), Fill(8, 255)}

SampleU128 == {Small(16, 0, 1), Ramp(16), Fill(16, 255)}

SampleBytes32 == {Fill(32, 0), Ramp(32), Reverse(Ramp(32))}

SampleAddress == {Fill(20, 0), Ramp(20)}

SampleJournals ==
  {ClaimJournal(bn, bh, ci, am, rc, nf) :
     bn \in SampleU64, bh \in SampleBytes32, ci \in {Fill(8, 0), Small(8, 1, 2)},
     am \in SampleU128, rc \in SampleAddress, nf \in {Ramp(32), Reverse(Ramp(32))}}

\* byte strings of the lengths around PACKED_JOURNAL_LEN, and the empty one
SamplePacked ==
  LET full == {pack_journal(j) : j \in {k \in SampleJournals : k.chain_id = Fill(8, 0)}}
  IN {<<>>}
       \cup full
       \cup {Slice(b, 0, PACKED_JOURNAL_LEN - 1) : b \in full}
       \cup {Slice(b, 1, PACKED_JOURNAL_LEN) : b \in full}
       \cup {b \o <<7>> : b \in full}
       \cup {b \o b : b \in full}

\* -------------------------------------------------------- calls: journals
Pending == [done |-> FALSE]

Returned(ret) == [done |-> TRUE, ret |-> ret]

\* unpack_journal(&pack_journal(&journal))
CallPackUnpack ==
  /\ input.fn = "pack_unpack"
  /\ ~output.done
  /\ output' = Returned([packed |-> pack_journal(input.journal),
                         unpacked |-> unpack_journal(pack_journal(input.journal))])
  /\ UNCHANGED <<serverVars, input>>

\* unpack_journal(bytes)
CallUnpackJournal ==
  /\ input.fn = "unpack_journal"
  /\ ~output.done
  /\ output' = Returned(unpack_journal(input.bytes))
  /\ UNCHANGED <<serverVars, input>>

InitJournal ==
  \/ \E j \in SampleJournals : input = [fn |-> "pack_unpack", journal |-> j]
  \/ \E b \in SamplePacked : input = [fn |-> "unpack_journal", bytes |-> b]

\* ------------------------------------------------------- results and usize
Ok(val) == [ok |-> TRUE, val |-> val]

\* Err(ClaimValidationError::<tag>)
Err(tag) == [ok |-> FALSE, err |-> tag]

\* the call did not return: the thread panicked
Panic == Err("panic")

\* `result?`: the error of result returned as it is, or Then of its value
Try(result, Then(_)) == IF ~result.ok THEN result ELSE Then(result.val)

\* `let name = value;` followed by Body, which reads the name
With(value, Body(_)) == Body(value)

\* core::mem::size_of::<usize>(), scaled down from the 4 or 8 bytes of the targets
UsizeBytes == 2

UsizeMod == 256 ^ UsizeBytes

\* an usize `+` whose mathematical result is x: it panics in a build with
\* overflow checks (input.overflow_checks) and wraps in a build without them
Overflows(x) == x >= UsizeMod

Wrap(x) == x % UsizeMod

\* the value of a big-endian byte string
RECURSIVE BeValue(_)
BeValue(bytes) ==
  IF Len(bytes) = 0 THEN 0
  ELSE 256 * BeValue(SubSeq(bytes, 1, Len(bytes) - 1)) + bytes[Len(bytes)]

\* read_be_usize: 1..size_of::<usize>() bytes, so checked_mul / checked_add never fail
read_be_usize(bytes) ==
  IF Len(bytes) = 0 \/ Len(bytes) > UsizeBytes
  THEN Err("InvalidRlpNode")
  ELSE Ok(BeValue(bytes))

\* ------------------------------------------------------------ RLP decoder
RlpItem(is_list, payload_offset, payload_len, total_len) ==
  [is_list |-> is_list, payload_offset |-> payload_offset,
   payload_len |-> payload_len, total_len |-> total_len]

\* decode_rlp_item, the two long forms (prefix 0xb8..0xbf and 0xf8..0xff)
DecodeLongItem(bytes, offset, is_list, len_of_len) ==
  LET len_offset == offset + 1 IN
  IF len_offset + len_of_len > Len(bytes) THEN Err("InvalidRlpNode")
  ELSE Try(read_be_usize(Slice(bytes, len_offset, len_offset + len_of_len)),
           LAMBDA len :
             LET payload_offset == len_offset + len_of_len
                 total_len == 1 + len_of_len + len
                 payload_end == payload_offset + len
             IN IF (Overflows(total_len) \/ Overflows(payload_end)) /\ input.overflow_checks
                THEN Panic
                ELSE IF Wrap(payload_end) > Len(bytes) THEN Err("InvalidRlpNode")
                ELSE Ok(RlpItem(is_list, payload_offset, len, Wrap(total_len))))

\* decode_rlp_item, the two short forms (prefix 0x80..0xb7 and 0xc0..0xf7)
DecodeShortItem(bytes, offset, is_list, len) ==
  IF offset + 1 + len > Len(bytes) THEN Err("InvalidRlpNode")
  ELSE Ok(RlpItem(is_list, offset + 1, len, 1 + len))

decode_rlp_item(bytes, offset) ==
  IF offset >= Len(bytes) THEN Err("InvalidRlpNode")
  ELSE LET prefix == bytes[offset + 1] IN
       IF prefix <= 127 THEN Ok(RlpItem(FALSE, offset, 1, 1))
       ELSE IF prefix <= 183 THEN DecodeShortItem(bytes, offset, FALSE, prefix - 128)
       ELSE IF prefix <= 191 THEN DecodeLongItem(bytes, offset, FALSE, prefix - 183)
       ELSE IF prefix <= 247 THEN DecodeShortItem(bytes, offset, TRUE, prefix - 192)
       ELSE DecodeLongItem(bytes, offset, TRUE, prefix - 247)

\* decode_rlp_list_payload_items, the loop `while cursor < end`
RECURSIVE DecodeItems(_, _, _, _)
DecodeItems(bytes, cursor, end, out) ==
  IF cursor >= end
  THEN IF cursor # end THEN Err("InvalidRlpNode") ELSE Ok(out)
  ELSE Try(decode_rlp_item(bytes, cursor),
           LAMBDA item :
             IF item.is_list THEN Err("InvalidRlpNode")
             ELSE LET payload_end == item.payload_offset + item.payload_len
                      next == cursor + item.total_len
                  IN IF Overflows(payload_end) /\ input.overflow_checks THEN Panic
                     ELSE IF Wrap(payload_end) > Len(bytes) THEN Err("InvalidRlpNode")
                     \* &input[payload_offset..payload_end] panics when the range is
                     \* reversed
                     ELSE IF item.payload_offset > Wrap(payload_end) THEN Panic
                     ELSE IF Overflows(next) /\ input.overflow_checks THEN Panic
                     ELSE DecodeItems(bytes, Wrap(next), end,
                                      Append(out, Slice(bytes, item.payload_offset,
                                                        Wrap(payload_end)))))

decode_rlp_list_payload_items(bytes) ==
  Try(decode_rlp_item(bytes, 0),
      LAMBDA top :
        LET end == top.payload_offset + top.payload_len IN
        IF ~top.is_list \/ top.total_len # Len(bytes) THEN Err("InvalidRlpNode")
        ELSE IF Overflows(end) /\ input.overflow_checks THEN Panic
        ELSE DecodeItems(bytes, top.payload_offset, Wrap(end), <<>>))

\* ------------------------------------------------- RLP encoders (tests)
\* usize_to_be_bytes: the minimal big-endian bytes of value, [0] for zero
RECURSIVE MinBeBytes(_)
MinBeBytes(value) ==
  IF value = 0 THEN <<>> ELSE Append(MinBeBytes(value \div 256), value % 256)

usize_to_be_bytes(value) == IF value = 0 THEN <<0>> ELSE MinBeBytes(value)

rlp_encode_bytes(raw) ==
  IF Len(raw) = 1 /\ raw[1] <= 127 THEN raw
  ELSE IF Len(raw) <= 55 THEN <<128 + Len(raw)>> \o raw
  ELSE <<183 + Len(usize_to_be_bytes(Len(raw)))>> \o usize_to_be_bytes(Len(raw)) \o raw

\* the concatenation of the byte strings of items
RECURSIVE Concat(_)
Concat(items) ==
  IF Len(items) = 0 THEN <<>> ELSE items[1] \o Concat(Tail(items))

rlp_encode_list(items) ==
  LET payload == Concat(items) IN
  IF Len(payload) <= 55 THEN <<192 + Len(payload)>> \o payload
  ELSE <<247 + Len(usize_to_be_bytes(Len(payload)))>>
         \o usize_to_be_bytes(Len(payload)) \o payload

\* ------------------------------------------------------ inputs: RLP nodes
RlpSample(kind, bytes) == [kind |-> kind, bytes |-> bytes]

\* well-formed lists of byte strings
WellFormedLists ==
  {rlp_encode_list(<<>>),
   rlp_encode_list(<<rlp_encode_bytes(<<5>>), rlp_encode_bytes(<<>>),
                     rlp_encode_bytes(<<200, 1, 2>>)>>),
   rlp_encode_list(<<rlp_encode_bytes(Ramp(56)), rlp_encode_bytes(<<9>>)>>),
   rlp_encode_list([i \in 1..17 |-> rlp_encode_bytes(<<>>)])}

\* the long-form prefix byte and length bytes announcing a payload of len bytes
LongPrefix(base, len_bytes) == <<base + Len(len_bytes)>> \o len_bytes

RlpSamples ==
  {RlpSample("well_formed", b) : b \in WellFormedLists}
    \cup {RlpSample("not_a_list", b) :
            b \in {<<5>>, rlp_encode_bytes(<<1, 2, 3>>), rlp_encode_bytes(Ramp(60))}}
    \cup {RlpSample("truncated", Slice(b, 0, Len(b) - 1)) :
            b \in WellFormedLists \ {rlp_encode_list(<<>>)}}
    \cup {RlpSample("trailing", b \o <<0>>) : b \in WellFormedLists}
    \cup {RlpSample("child_is_list", b) :
            b \in {rlp_encode_list(<<rlp_encode_list(<<>>)>>),
                   rlp_encode_list(<<rlp_encode_bytes(<<1>>),
                                     rlp_encode_list(<<rlp_encode_bytes(<<2>>)>>)>>),
                   rlp_encode_list(<<rlp_encode_list(<<rlp_encode_bytes(Ramp(56))>>)>>)}}
    \cup {RlpSample("length_of_length_truncated", b) :
            b \in {<<249, 1>>, <<248>>,
                   <<194>> \o <<185, 1>>,
                   <<193>> \o <<184>>}}
    \cup {RlpSample("child_past_end", b) :
            b \in {<<194, 131, 1>>,
                   <<195>> \o LongPrefix(183, <<5>>) \o <<1>>,
                   <<195>> \o LongPrefix(183, <<56>>) \o <<1>>,
                   <<193 + UsizeBytes>> \o LongPrefix(183, Fill(UsizeBytes, 255)),
                   <<194 + UsizeBytes>> \o LongPrefix(183, Fill(UsizeBytes, 255)) \o <<1>>}}
    \cup {RlpSample("zero_length_long_form", b) :
            b \in {LongPrefix(247, <<0>>),
                   LongPrefix(247, <<0, 0>>),
                   <<194>> \o LongPrefix(183, <<0>>),
                   <<196>> \o LongPrefix(183, <<0>>) \o <<1, 2>>,
                   <<194>> \o LongPrefix(247, <<0>>)}}
    \cup {RlpSample("length_wider_than_usize", b) :
            b \in {<<194 + UsizeBytes>> \o LongPrefix(183, Fill(UsizeBytes + 1, 0)),
                   LongPrefix(247, Fill(UsizeBytes + 1, 1))}}
    \cup {RlpSample("empty_input", <<>>)}

\* ------------------------------------------------------------- calls: RLP
CallDecodeRlpList ==
  /\ input.fn = "decode_rlp_list_payload_items"
  /\ ~output.done
  /\ output' = Returned(decode_rlp_list_payload_items(input.bytes))
  /\ UNCHANGED <<serverVars, input>>

\* the lengths that a long-form item declares: of the payloads below, past
\* them, and the largest usize and the MaxBelowUsizeMax lengths below it
MaxBelowUsizeMax == 4

DeclaredLengths ==
  {<<56>>, <<60>>, <<1, 0>>} \cup {MinBeBytes(UsizeMod - 1 - k) : k \in 0..MaxBelowUsizeMax}

\* long-form strings and lists at an offset of 0 or 1, with payloads that
\* have or have not the declared length
RlpItemSamples ==
  {[bytes |-> Fill(offset, 0) \o LongPrefix(base, len_bytes) \o payload, offset |-> offset] :
     offset \in {0, 1}, base \in {183, 247}, len_bytes \in DeclaredLengths,
     payload \in {<<>>, Ramp(3), Ramp(56), Ramp(60)}}

CallDecodeRlpItem ==
  /\ input.fn = "decode_rlp_item"
  /\ ~output.done
  /\ output' = Returned(decode_rlp_item(input.bytes, input.offset))
  /\ UNCHANGED <<serverVars, input>>

InitRlpItem ==
  \E s \in RlpItemSamples, checks \in BOOLEAN :
    input = [fn |-> "decode_rlp_item", overflow_checks |-> checks,
             bytes |-> s.bytes, offset |-> s.offset]

InitRlp ==
  \E s \in RlpSamples, checks \in BOOLEAN :
    input = [fn |-> "decode_rlp_list_payload_items", overflow_checks |-> checks,
             kind |-> s.kind, bytes |-> s.bytes]

\* ----------------------------------------------------------------- hashes
\* Keccak-256 and SHA-256 are stood for by two 32-byte digests of the whole
\* byte string (its length included), different from each other; the code
\* uses a digest only by comparing it, copying it and reading its nibbles.
HashMod == 32749

\* mult ^ e modulo HashMod
RECURSIVE PowMod(_, _)
PowMod(mult, e) ==
  IF e = 0 THEN 1
  ELSE LET h == PowMod(mult, e \div 2) IN
       (((h * h) % HashMod) * (IF e % 2 = 1 THEN mult ELSE 1)) % HashMod

\* the polynomial in mult whose coefficients are the bytes data[lo..hi]
RECURSIVE Absorb(_, _, _, _)
Absorb(data, lo, hi, mult) ==
  IF lo > hi THEN 0
  ELSE IF lo = hi THEN data[lo] + 1
  ELSE LET mid == (lo + hi) \div 2 IN
       (Absorb(data, lo, mid, mult) * PowMod(mult, hi - mid)
          + Absorb(data, mid + 1, hi, mult)) % HashMod

Digest(data, seed) ==
  LET a == (Absorb(data, 1, Len(data), 31) + 7 * Len(data) + seed) % HashMod
      b == (Absorb(data, 1, Len(data), 37) + Len(data) + 3 * seed) % HashMod
  IN [i \in 1..32 |->
        IF i = 1 THEN a % 256
        ELSE IF i = 2 THEN a \div 256
        ELSE IF i = 3 THEN b % 256
        ELSE IF i = 4 THEN b \div 256
        ELSE (a * i + b + (a \div 256) * (b % 256)) % 256]

sha256(data) == Digest(data, 2)

keccak256(data) == Digest(data, 3)

\* copy_from_slice into [u8; 32]; every caller has checked the length
to_32(bytes) == bytes

\* ---------------------------------------------------------- trie verifier
hash_to_nibbles(hash) ==
  [i \in 1..(2 * Len(hash)) |->
     IF i % 2 = 1 THEN hash[(i + 1) \div 2] \div 16 ELSE hash[i \div 2] % 16]

decode_compact_nibbles(encoded) ==
  IF Len(encoded) = 0 THEN Err("InvalidTriePath")
  ELSE LET flag == encoded[1] \div 16 IN
       IF flag > 3 THEN Err("InvalidTriePath")
       ELSE LET is_leaf == (flag \div 2) % 2 = 1
                is_odd == flag % 2 = 1
                first == IF is_odd THEN <<encoded[1] % 16>> ELSE <<>>
                rest == [i \in 1..(2 * (Len(encoded) - 1)) |->
                           IF i % 2 = 1 THEN encoded[1 + (i + 1) \div 2] \div 16
                           ELSE encoded[1 + i \div 2] % 16]
            IN Ok([is_leaf |-> is_leaf, nibbles |-> first \o rest])

\* a faulty reference check that takes any node for a 32-byte reference
node_matches_reference_unhashed(node, reference) ==
  IF Len(reference) = 0 THEN FALSE
  ELSE IF Len(reference) = 32 THEN TRUE
  ELSE node = reference

node_matches_reference(node, reference) ==
  IF Len(reference) = 0 THEN FALSE
  ELSE IF Len(reference) = 32 THEN keccak256(node) = to_32(reference)
  ELSE node = reference

decode_account_balance(account_rlp) ==
  Try(decode_rlp_list_payload_items(account_rlp),
      LAMBDA fields :
        IF Len(fields) # 4 THEN Err("InvalidAccountValue")
        ELSE IF Len(fields[2]) > 32 THEN Err("InvalidAccountValue")
        ELSE Ok(Fill(32 - Len(fields[2]), 0) \o fields[2]))

\* Option<Vec<u8>>
None == [some |-> FALSE]

Some(val) == [some |-> TRUE, val |-> val]

\* Option::ok_or
ok_or(option, tag) == IF option.some THEN Ok(option.val) ELSE Err(tag)

\* a faulty branch arm that selects a child whatever the number of consumed
\* nibbles is, reading the nibble 0 beyond the key
BranchStepUnguarded(elements, depth, nodes, key_nibbles, key_index) ==
  LET nibble == IF key_index < Len(key_nibbles) THEN key_nibbles[key_index + 1] ELSE 0
      next_ref == elements[nibble + 1]
  IN IF Len(next_ref) = 0 THEN Err("MissingAccountValue")
     ELSE Ok([break |-> FALSE, expected_ref |-> Some(next_ref),
              key_index |-> key_index + 1])

\* the arm `17 =>` of the loop body: Ok carries what the loop does next
BranchStep(elements, depth, nodes, key_nibbles, key_index) ==
  IF key_index = Len(key_nibbles)
  THEN LET value == elements[17] IN
       IF Len(value) = 0 THEN Err("MissingAccountValue")
       ELSE IF depth + 1 # Len(nodes) THEN Err("InvalidTriePath")
       ELSE Ok([break |-> TRUE, account_rlp |-> value, key_index |-> key_index])
  ELSE LET next_ref == elements[key_nibbles[key_index + 1] + 1] IN
       IF Len(next_ref) = 0 THEN Err("MissingAccountValue")
       ELSE Ok([break |-> FALSE, expected_ref |-> Some(next_ref),
                key_index |-> key_index + 1])

\* a faulty extension arm that skips the comparison of the path with the key
PathStepUnchecked(elements, depth, nodes, key_nibbles, key_index) ==
  LET c == decode_compact_nibbles(elements[1]) IN
  IF ~c.ok THEN c
  ELSE LET path_nibbles == c.val.nibbles
           end == key_index + Len(path_nibbles)
       IN IF end > Len(key_nibbles) THEN Err("InvalidTriePath")
          ELSE IF c.val.is_leaf
          THEN IF end # Len(key_nibbles) THEN Err("InvalidTriePath")
               ELSE LET value == elements[2] IN
                    IF Len(value) = 0 THEN Err("MissingAccountValue")
                    ELSE IF depth + 1 # Len(nodes) THEN Err("InvalidTriePath")
                    ELSE Ok([break |-> TRUE, account_rlp |-> value, key_index |-> end])
          ELSE LET next_ref == elements[2] IN
               IF Len(next_ref) = 0 THEN Err("InvalidTriePath")
               ELSE Ok([break |-> FALSE, expected_ref |-> Some(next_ref),
                        key_index |-> end])

\* the arm `2 =>` of the loop body: a leaf or an extension
PathStep(elements, depth, nodes, key_nibbles, key_index) ==
  LET c == decode_compact_nibbles(elements[1]) IN
  IF ~c.ok THEN c
  ELSE LET path_nibbles == c.val.nibbles
           end == key_index + Len(path_nibbles)
       IN IF end > Len(key_nibbles) THEN Err("InvalidTriePath")
          ELSE IF Slice(key_nibbles, key_index, end) # path_nibbles
          THEN Err("InvalidTriePath")
          ELSE IF c.val.is_leaf
          THEN IF end # Len(key_nibbles) THEN Err("InvalidTriePath")
               ELSE LET value == elements[2] IN
                    IF Len(value) = 0 THEN Err("MissingAccountValue")
                    ELSE IF depth + 1 # Len(nodes) THEN Err("InvalidTriePath")
                    ELSE Ok([break |-> TRUE, account_rlp |-> value, key_index |-> end])
          ELSE LET next_ref == elements[2] IN
               IF Len(next_ref) = 0 THEN Err("InvalidTriePath")
               ELSE Ok([break |-> FALSE, expected_ref |-> Some(next_ref),
                        key_index |-> end])

\* the check of a node against the state root or its parent's reference
ReferenceCheck(state_root, node, depth, expected_ref) ==
  IF depth = 0
  THEN IF keccak256(node) # state_root THEN Err("InvalidNodeReference") ELSE Ok(TRUE)
  ELSE IF ~expected_ref.some THEN Err("InvalidTriePath")
  ELSE IF ~node_matches_reference(node, expected_ref.val)
  THEN Err("InvalidNodeReference")
  ELSE Ok(TRUE)

\* the loop `for (depth, node) in proof_nodes.iter().enumerate()`: the
\* account value it ends with, None when the nodes run out
\* one iteration of the loop, on the node nodes[depth]
LoopBody(state_root, key_nibbles, nodes, depth, key_index, expected_ref) ==
  Try(ReferenceCheck(state_root, nodes[depth + 1], depth, expected_ref),
      LAMBDA checked :
        Try(decode_rlp_list_payload_items(nodes[depth + 1]),
            LAMBDA elements :
              IF Len(elements) = 17
              THEN BranchStep(elements, depth, nodes, key_nibbles, key_index)
              ELSE IF Len(elements) = 2
              THEN PathStep(elements, depth, nodes, key_nibbles, key_index)
              ELSE Err("InvalidTrieNode")))

RECURSIVE ProofLoop(_, _, _, _, _, _)
ProofLoop(state_root, key_nibbles, nodes, depth, key_index, expected_ref) ==
  IF depth >= Len(nodes) THEN Ok(None)
  ELSE Try(LoopBody(state_root, key_nibbles, nodes, depth, key_index, expected_ref),
           LAMBDA step :
             IF step.break THEN Ok(Some(step.account_rlp))
             ELSE ProofLoop(state_root, key_nibbles, nodes, depth + 1,
                            step.key_index, step.expected_ref))

verify_account_proof_and_get_balance(state_root, target_address, proof_nodes) ==
  Try(ProofLoop(state_root, hash_to_nibbles(keccak256(target_address)), proof_nodes,
                0, 0, None),
      LAMBDA account_rlp :
        IF ~account_rlp.some THEN Err("MissingAccountValue")
        ELSE decode_account_balance(account_rlp.val))

\* --------------------------------------------------- trie encoders (tests)
nibbles_to_compact_path(nibbles, is_leaf) ==
  LET is_odd == Len(nibbles) % 2 = 1
      flags == (IF is_leaf THEN 2 ELSE 0) + (IF is_odd THEN 1 ELSE 0)
      body == IF is_odd THEN Tail(nibbles) ELSE nibbles
  IN <<flags * 16 + (IF is_odd THEN (nibbles[1] % 16) ELSE 0)>>
       \o [i \in 1..(Len(body) \div 2) |-> (body[2 * i - 1] * 16 + (body[2 * i] % 16)) % 256]

\* Account RLP: [nonce, balance, storageRoot, codeHash]
account_rlp(nonce, balance_raw, storage_root, code_hash) ==
  rlp_encode_list(<<rlp_encode_bytes(nonce), rlp_encode_bytes(balance_raw),
                    rlp_encode_bytes(storage_root), rlp_encode_bytes(code_hash)>>)

\* MPT leaf node RLP: [path, accountRlpBytes]
leaf_node(path_nibbles, value) ==
  rlp_encode_list(<<rlp_encode_bytes(nibbles_to_compact_path(path_nibbles, TRUE)),
                    rlp_encode_bytes(value)>>)

\* MPT extension node RLP: [path, reference of the next node]
extension_node(path_nibbles, next_ref) ==
  rlp_encode_list(<<rlp_encode_bytes(nibbles_to_compact_path(path_nibbles, FALSE)),
                    rlp_encode_bytes(next_ref)>>)

\* MPT branch node RLP: 16 child slots, one of them used, and the value slot
branch_node(idx, child_ref, value) ==
  rlp_encode_list([i \in 1..17 |->
                     IF i = 17 THEN rlp_encode_bytes(value)
                     ELSE IF i = idx + 1 THEN rlp_encode_bytes(child_ref)
                     ELSE rlp_encode_bytes(<<>>)])

\* wrong[0] ^= 1, at byte i
Flip(bytes, i) ==
  [j \in 1..Len(bytes) |->
     IF j # i THEN bytes[j]
     ELSE IF bytes[j] % 2 = 0 THEN bytes[j] + 1 ELSE bytes[j] - 1]

\* ------------------------------------------------- inputs: account proofs
\* A proof is described node by node, from the root: the kind of the node
\* (t), the nibbles of a leaf or extension (path), the child slot a branch
\* uses (slot), the value a leaf or a branch holds (value), and how
\* the node refers to the next one (ref).
NodeShape(t, path, slot, value, ref) ==
  [t |-> t, path |-> path, slot |-> slot, value |-> value, ref |-> ref]

LeafShape(path, value) == NodeShape("leaf", path, 0, value, "none")

ExtShape(path, ref) == NodeShape("extension", path, 0, <<>>, ref)

BranchShape(slot, ref) == NodeShape("branch", <<>>, slot, <<>>, ref)

BranchValueShape(value) == NodeShape("branch_value", <<>>, 0, value, "none")

RawShape(bytes) == NodeShape("raw", <<>>, 0, bytes, "none")

\* the reference a parent holds for the node child: its Keccak-256, or the
\* node itself when it is shorter than 32 bytes; and the faulty references
ChildRef(child, ref) ==
  LET good == IF Len(child) < 32 THEN child ELSE keccak256(child) IN
  IF ref = "hash_or_inline" THEN good
  ELSE IF ref = "flipped" THEN Flip(good, 1)
  ELSE IF ref = "literal" THEN child
  ELSE IF ref = "other_inline" THEN <<193, 128>>
  ELSE <<>>

EncodeNode(shape, child_ref) ==
  IF shape.t = "leaf" THEN leaf_node(shape.path, shape.value)
  ELSE IF shape.t = "extension" THEN extension_node(shape.path, child_ref)
  ELSE IF shape.t = "branch" THEN branch_node(shape.slot, child_ref, shape.value)
  ELSE IF shape.t = "branch_value" THEN branch_node(16, <<>>, shape.value)
  ELSE shape.value

\* the nodes of shapes[i..], each parent encoded after its child
RECURSIVE EncodeFrom(_, _)
EncodeFrom(shapes, i) ==
  IF i > Len(shapes) THEN <<>>
  ELSE LET rest == EncodeFrom(shapes, i + 1)
           \* a last node still refers to a node, one the proof does not supply
           child == IF Len(rest) = 0 THEN Fill(40, 7) ELSE rest[1]
       IN <<EncodeNode(shapes[i], ChildRef(child, shapes[i].ref))>> \o rest

TrieSample(kind, address, root_flipped, shapes) ==
  LET nodes == EncodeFrom(shapes, 1)
      root == IF Len(nodes) = 0 THEN Fill(32, 0) ELSE keccak256(nodes[1])
  IN [kind |-> kind, target_address |-> address,
      state_root |-> IF root_flipped THEN Flip(root, 1) ELSE root,
      proof_nodes |-> nodes, shape |-> shapes]

KeyOf(address) == hash_to_nibbles(keccak256(address))

\* nibbles with the one at i changed
Bump(nibbles, i) ==
  [j \in 1..Len(nibbles) |-> IF j = i THEN (nibbles[j] + 1) % 16 ELSE nibbles[j]]

SampleBalances == {<<>>, <<1, 2, 3, 4, 5>>, Fill(32, 255)}

FullAccount(balance_raw) == account_rlp(<<>>, balance_raw, Fill(32, 34), Fill(32, 51))

\* an account value short enough for its leaf to be inlined in the parent
ShortAccount(balance_raw) == account_rlp(<<>>, balance_raw, <<>>, <<>>)

\* the well-formed proofs of the account at key k
ValidShapes(k, balance_raw) ==
  LET acct == FullAccount(balance_raw)
      hash == "hash_or_inline"
  IN {<<LeafShape(k, acct)>>,
      <<BranchShape(k[1], hash), LeafShape(SubSeq(k, 2, 64), acct)>>,
      <<BranchShape(k[1], hash), BranchShape(k[2], hash), LeafShape(SubSeq(k, 3, 64), acct)>>,
      <<ExtShape(SubSeq(k, 1, 2), hash), BranchShape(k[3], hash),
        LeafShape(SubSeq(k, 4, 64), acct)>>,
      <<ExtShape(SubSeq(k, 1, 62), hash), BranchShape(k[63], hash),
        LeafShape(<<k[64]>>, ShortAccount(<<9>>))>>,
      <<ExtShape(SubSeq(k, 1, 62), hash), NodeShape("branch", <<>>, k[63], Fill(20, 1), hash),
        LeafShape(<<k[64]>>, ShortAccount(<<9>>))>>,
      <<ExtShape(k, hash), BranchValueShape(acct)>>}

\* proofs with one fault each, named by the fault
FaultyShapes(k) ==
  LET acct == FullAccount(<<1, 2, 3, 4, 5>>)
      hash == "hash_or_inline"
      leaf2 == LeafShape(SubSeq(k, 2, 64), acct)
      leaf4 == LeafShape(SubSeq(k, 4, 64), acct)
      short == LeafShape(<<k[64]>>, ShortAccount(<<9>>))
  IN {<<"child_reference_flipped", <<BranchShape(k[1], "flipped"), leaf2>>>>,
      <<"child_reference_flipped",
        <<ExtShape(SubSeq(k, 1, 2), "flipped"), BranchShape(k[3], hash), leaf4>>>>,
      <<"child_reference_flipped",
        <<ExtShape(SubSeq(k, 1, 2), hash), BranchShape(k[3], "flipped"), leaf4>>>>,
      <<"inline_reference_differs",
        <<ExtShape(SubSeq(k, 1, 62), hash), BranchShape(k[63], "other_inline"), short>>>>,
      <<"long_literal_reference", <<BranchShape(k[1], "literal"), leaf2>>>>,
      <<"empty_branch_slot", <<BranchShape(k[1], "empty"), leaf2>>>>,
      <<"empty_branch_slot", <<BranchShape((k[1] + 1) % 16, hash), leaf2>>>>,
      <<"empty_branch_slot",
        <<ExtShape(SubSeq(k, 1, 2), hash), BranchShape(k[3], "empty"), leaf4>>>>,
      <<"empty_branch_slot", <<BranchShape(k[1], "empty")>>>>,
      <<"empty_extension_reference",
        <<ExtShape(SubSeq(k, 1, 2), "empty"), BranchShape(k[3], hash), leaf4>>>>,
      <<"empty_extension_reference", <<ExtShape(SubSeq(k, 1, 2), "empty")>>>>,
      <<"empty_extension_reference",
        <<BranchShape(k[1], hash), ExtShape(SubSeq(k, 2, 3), "empty"),
          LeafShape(SubSeq(k, 4, 64), acct)>>>>,
      <<"leaf_path_differs", <<LeafShape(Bump(k, 1), acct)>>>>,
      <<"leaf_path_differs", <<LeafShape(Bump(k, 64), acct)>>>>,
      <<"leaf_path_differs",
        <<BranchShape(k[1], hash), LeafShape(Bump(SubSeq(k, 2, 64), 30), acct)>>>>,
      <<"extension_path_differs",
        <<ExtShape(Bump(SubSeq(k, 1, 2), 2), hash), BranchShape(k[3], hash), leaf4>>>>,
      <<"extension_path_differs",
        <<ExtShape(Bump(SubSeq(k, 1, 62), 1), hash), BranchShape(k[63], hash), short>>>>,
      <<"path_length_differs", <<LeafShape(SubSeq(k, 1, 62), acct)>>>>,
      <<"path_length_differs", <<LeafShape(k \o <<1, 2>>, acct)>>>>,
      <<"path_length_differs",
        <<BranchShape(k[1], hash), LeafShape(SubSeq(k, 3, 64), acct)>>>>,
      <<"path_length_differs",
        <<ExtShape(SubSeq(k, 1, 62), hash), BranchShape(k[63], hash),
          ExtShape(<<k[64], 1>>, hash)>>>>,
      <<"node_after_account", <<LeafShape(k, acct), LeafShape(k, acct)>>>>,
      <<"node_after_account", <<BranchShape(k[1], hash), leaf2, RawShape(<<192>>)>>>>,
      <<"node_after_account",
        <<ExtShape(k, hash), BranchValueShape(acct), LeafShape(k, acct)>>>>,
      <<"proof_ends_early", <<>>>>,
      <<"proof_ends_early", <<BranchShape(k[1], hash)>>>>,
      <<"proof_ends_early", <<ExtShape(SubSeq(k, 1, 2), hash), BranchShape(k[3], hash)>>>>,
      <<"bad_node", <<RawShape(rlp_encode_list(<<<<1>>, <<2>>, <<3>>>>))>>>>,
      <<"bad_node", <<RawShape(<<1, 2, 3>>)>>>>,
      <<"bad_node", <<BranchShape(k[1], hash), RawShape(Fill(33, 200))>>>>,
      <<"bad_node", <<NodeShape("extension", <<>>, 0, <<>>, hash), leaf2>>>>,
      <<"missing_value", <<LeafShape(k, <<>>)>>>>,
      <<"missing_value", <<ExtShape(k, hash), BranchValueShape(<<>>)>>>>,
      <<"bad_account", <<LeafShape(k, rlp_encode_list(<<<<1>>, <<2>>, <<3>>>>))>>>>,
      <<"bad_account", <<LeafShape(k, FullAccount(Fill(33, 1)))>>>>,
      <<"bad_account", <<LeafShape(k, <<1, 2, 3>>)>>>>}

TrieSamples ==
  UNION {{TrieSample("valid", a, FALSE, s) : s \in ValidShapes(KeyOf(a), b)}
           \cup {TrieSample("state_root_flipped", a, TRUE, s) : s \in ValidShapes(KeyOf(a), b)}
         : a \in SampleAddress, b \in SampleBalances}
    \cup UNION {{TrieSample(f[1], a, FALSE, f[2]) : f \in FaultyShapes(KeyOf(a))}
                : a \in SampleAddress}

\* ------------------------------------------------------------ calls: trie
CallVerifyAccountProof ==
  /\ input.fn = "verify_account_proof_and_get_balance"
  /\ ~output.done
  /\ output' = Returned(verify_account_proof_and_get_balance(
                          input.state_root, input.target_address, input.proof_nodes))
  /\ UNCHANGED <<serverVars, input>>

\* the loop of verify_account_proof_and_get_balance between two iterations
LoopState(depth, key_index, expected_ref) ==
  [done |-> FALSE, depth |-> depth, key_index |-> key_index, expected_ref |-> expected_ref]

\* the function has returned ret, its loop having come to depth and key_index
LoopReturned(ret, depth, key_index) ==
  [done |-> TRUE, ret |-> ret, depth |-> depth, key_index |-> key_index]

\* verify_account_proof_and_get_balance, one iteration of its loop at a time
VerifyLoopStep ==
  /\ input.fn = "verify_account_proof_loop"
  /\ ~output.done
  /\ LET at == IF output = Pending THEN LoopState(0, 0, None) ELSE output
         key_nibbles == hash_to_nibbles(keccak256(input.target_address))
     IN IF at.depth >= Len(input.proof_nodes)
        THEN output' = LoopReturned(Err("MissingAccountValue"), at.depth, at.key_index)
        ELSE LET step == LoopBody(input.state_root, key_nibbles, input.proof_nodes,
                                  at.depth, at.key_index, at.expected_ref)
             IN IF ~step.ok
                THEN output' = LoopReturned(step, at.depth, at.key_index)
                ELSE IF step.val.break
                THEN output' = LoopReturned(decode_account_balance(step.val.account_rlp),
                                            at.depth + 1, step.val.key_index)
                ELSE output' = LoopState(at.depth + 1, step.val.key_index,
                                         step.val.expected_ref)
  /\ UNCHANGED <<serverVars, input>>

InitTrieLoop ==
  \E s \in TrieSamples, checks \in BOOLEAN :
    input = [fn |-> "verify_account_proof_loop", overflow_checks |-> checks,
             kind |-> s.kind, state_root |-> s.state_root,
             target_address |-> s.target_address, proof_nodes |-> s.proof_nodes,
             shape |-> s.shape]

InitTrie ==
  \E s \in TrieSamples, checks \in BOOLEAN :
    input = [fn |-> "verify_account_proof_and_get_balance", overflow_checks |-> checks,
             kind |-> s.kind, state_root |-> s.state_root,
             target_address |-> s.target_address, proof_nodes |-> s.proof_nodes,
             shape |-> s.shape]

\* ---------------------------------------------------- block header parser
\* a faulty parse_u64_from_rlp_quantity that reads the last byte only
parse_u64_last_byte(bytes) ==
  IF Len(bytes) > 8 THEN None
  ELSE Some(Fill(7, 0) \o (IF Len(bytes) = 0 THEN <<0>> ELSE <<bytes[Len(bytes)]>>))

\* parse_u64_from_rlp_quantity: at most 8 bytes, so checked_mul and
\* checked_add never fail; the u64 is its 8 big-endian bytes
parse_u64_from_rlp_quantity(bytes) ==
  IF Len(bytes) > 8 THEN None
  ELSE Some(Fill(8 - Len(bytes), 0) \o bytes)

parse_state_root_from_block_header(expected_block_hash, expected_block_number, block_header_rlp) ==
  IF keccak256(block_header_rlp) # expected_block_hash
  THEN Err("InvalidBlockHeaderHash")
  ELSE Try(decode_rlp_list_payload_items(block_header_rlp),
           LAMBDA fields :
             IF Len(fields) < 9 THEN Err("InvalidBlockHeaderShape")
             ELSE IF Len(fields[4]) # 32 THEN Err("InvalidBlockHeaderShape")
             ELSE Try(ok_or(parse_u64_from_rlp_quantity(fields[9]),
                            "InvalidBlockHeaderShape"),
                      LAMBDA block_number :
                        IF block_number # expected_block_number
                        THEN Err("BlockNumberMismatch")
                        ELSE Ok(to_32(fields[4]))))

\* ------------------------------------------------- header encoder (tests)
\* u64_to_min_be_bytes: the big-endian bytes of value without leading zeros
u64_to_min_be_bytes(value) ==
  LET nonzero == {i \in 1..Len(value) : value[i] # 0} IN
  IF nonzero = {} THEN <<>>
  ELSE SubSeq(value, CHOOSE i \in nonzero : \A j \in nonzero : i <= j, Len(value))

\* the 17 fields of make_block_header_rlp, before their encoding
header_fields(block_number, state_root) ==
  <<Fill(32, 17), Fill(32, 34), Fill(20, 51), state_root, Fill(32, 68), Fill(32, 85),
    Fill(256, 0), <<>>, u64_to_min_be_bytes(block_number), <<1>>, <<>>, <<2>>, <<>>,
    Fill(32, 102), Fill(8, 119), <<1>>, Fill(32, 136)>>

\* the RLP list of the given fields
encode_header(fields) ==
  rlp_encode_list([i \in 1..Len(fields) |-> rlp_encode_bytes(fields[i])])

make_block_header_rlp(block_number, state_root) ==
  encode_header(header_fields(block_number, state_root))

\* ------------------------------------------------- inputs: block headers
\* fields: the header's fields before encoding (none when the blob is no list)
HeaderSample(kind, fields, blob, hash_flipped, expected_block_number) ==
  [kind |-> kind, fields |-> fields, block_header_rlp |-> blob,
   expected_block_hash |-> IF hash_flipped THEN Flip(keccak256(blob), 32)
                           ELSE keccak256(blob),
   expected_block_number |-> expected_block_number]

SampleBlockNumbers == {Fill(8, 0), Small(8, 0, 5), Small(8, 1, 2), Small(8, 2, 2), Fill(8, 255)}

SampleStateRoots == {Ramp(32), Fill(32, 0)}

\* headers that are lists but not of the shape of a header, and their fields
MisshapenHeaders ==
  LET good == header_fields(Small(8, 1, 2), Ramp(32)) IN
  {SubSeq(good, 1, 8),
   <<>>,
   [good EXCEPT ![4] = Fill(31, 9)],
   [good EXCEPT ![4] = Fill(33, 9)],
   [good EXCEPT ![9] = Fill(9, 1)]}

HeaderSamples ==
  UNION {{HeaderSample("valid", header_fields(n, r), make_block_header_rlp(n, r), FALSE, n),
          HeaderSample("hash_differs", header_fields(n, r), make_block_header_rlp(n, r),
                       TRUE, n)}
         : n \in SampleBlockNumbers, r \in SampleStateRoots}
    \cup {HeaderSample("valid", f, encode_header(f), FALSE, Small(8, 0, 5)) :
            f \in {[header_fields(Small(8, 0, 5), Ramp(32)) EXCEPT ![9] = <<0, 5>>],
                   SubSeq(header_fields(Small(8, 0, 5), Ramp(32)), 1, 9)}}
    \cup {HeaderSample("number_differs", header_fields(p[1], Ramp(32)),
                       make_block_header_rlp(p[1], Ramp(32)), FALSE, p[2])
          : p \in {q \in SampleBlockNumbers \X SampleBlockNumbers : q[1] # q[2]}}
    \cup {HeaderSample("hash_differs", header_fields(Small(8, 1, 2), Ramp(32)),
                       make_block_header_rlp(Small(8, 1, 2), Ramp(32)), TRUE, Small(8, 2, 2))}
    \cup {HeaderSample("hash_differs", <<>>, b, TRUE, Small(8, 1, 2)) :
            b \in {<<>>, <<1, 2, 3>>, <<248, 0>>,
                   Slice(make_block_header_rlp(Small(8, 1, 2), Ramp(32)), 0, 300)}}
    \cup {HeaderSample("misshapen", f, encode_header(f), h, Small(8, 1, 2)) :
            f \in MisshapenHeaders, h \in BOOLEAN}
    \cup {HeaderSample("not_a_list_of_strings", <<>>, b, FALSE, Small(8, 1, 2)) :
            b \in {<<>>, <<1, 2, 3>>,
                   Slice(make_block_header_rlp(Small(8, 1, 2), Ramp(32)), 0, 300),
                   rlp_encode_list(<<rlp_encode_list(<<>>)>>)}}

\* --------------------------------------------------------- calls: headers
CallParseStateRoot ==
  /\ input.fn = "parse_state_root_from_block_header"
  /\ ~output.done
  /\ output' = Returned(parse_state_root_from_block_header(
                          input.expected_block_hash, input.expected_block_number,
                          input.block_header_rlp))
  /\ UNCHANGED <<serverVars, input>>

InitHeader ==
  \E s \in HeaderSamples, checks \in BOOLEAN :
    input = [fn |-> "parse_state_root_from_block_header", overflow_checks |-> checks,
             kind |-> s.kind, fields |-> s.fields,
             expected_block_hash |-> s.expected_block_hash,
             expected_block_number |-> s.expected_block_number,
             block_header_rlp |-> s.block_header_rlp]

\* ------------------------------------------------- fixed-width arithmetic
\* the digits 0..i of a + b + carry, for big-endian a and b of one length:
\* digit 0 is the carry out of digit 1
RECURSIVE AddFrom(_, _, _, _)
AddFrom(a, b, i, carry) ==
  IF i = 0 THEN <<carry>>
  ELSE LET digit == a[i] + b[i] + carry IN
       Append(AddFrom(a, b, i - 1, digit \div 256), digit % 256)

\* the mathematical sum a + b, one digit longer than a and b
AddBytes(a, b) == AddFrom(a, b, Len(a), 0)

\* a < b as unsigned integers, for big-endian a and b of one length
Less(a, b) ==
  \E i \in 1..Len(a) : a[i] < b[i] /\ \A j \in 1..(i - 1) : a[j] = b[j]

\* uN::checked_add: None when the sum does not fit the width
checked_add(a, b) ==
  LET sum == AddBytes(a, b) IN IF sum[1] # 0 THEN None ELSE Some(Tail(sum))

\* 8_000_000_000_000_000_000 as u128
MAX_TOTAL_WEI == Fill(8, 0) \o <<111, 5, 181, 157, 59, 32, 0, 0>>

MAX_PROOF_DEPTH == 64

MAX_NODE_BYTES == 4096

\* b"shadow.recipient.v1"
MAGIC_RECIPIENT ==
  <<115, 104, 97, 100, 111, 119, 46, 114, 101, 99, 105, 112, 105, 101, 110, 116, 46, 118, 49>>

\* b"shadow.address.v1"
MAGIC_ADDRESS ==
  <<115, 104, 97, 100, 111, 119, 46, 97, 100, 100, 114, 101, 115, 115, 46, 118, 49>>

\* b"shadow.nullifier.v1"
MAGIC_NULLIFIER ==
  <<115, 104, 97, 100, 111, 119, 46, 110, 117, 108, 108, 105, 102, 105, 101, 114, 46, 118, 49>>

u128_to_bytes32(value) == Fill(16, 0) \o value

u64_to_bytes32(value) == Fill(24, 0) \o value

\* note_index as u64, for a u32 held as a number
u32_as_u64(n) == Fill(4, 0) \o <<n \div 16777216, (n \div 65536) % 256, (n \div 256) % 256, n % 256>>

pad_magic_label(label) ==
  LET n == IF Len(label) < 32 THEN Len(label) ELSE 32 IN
  SubSeq(label, 1, n) \o Fill(32 - n, 0)

compute_recipient_hash(recipient) ==
  sha256(pad_magic_label(MAGIC_RECIPIENT) \o Fill(12, 0) \o recipient)

\* a faulty buffer that ends with the last counted note
notes_buffer_unpadded(note_count, amounts, recipient_hashes) ==
  Concat([i \in 1..note_count |-> u128_to_bytes32(amounts[i]) \o recipient_hashes[i]])

\* buf of compute_notes_hash: [0u8; MAX_NOTES * 64] with the counted notes
\* copied into its first slots
notes_buffer(note_count, amounts, recipient_hashes) ==
  Concat([i \in 1..MAX_NOTES |->
            IF i <= note_count
            THEN u128_to_bytes32(amounts[i]) \o recipient_hashes[i]
            ELSE Fill(64, 0)])

compute_notes_hash(note_count, amounts, recipient_hashes) ==
  IF Len(amounts) < note_count \/ Len(recipient_hashes) < note_count \/ note_count > MAX_NOTES
  THEN Err("InvalidInputLengths")
  ELSE Ok(sha256(notes_buffer(note_count, amounts, recipient_hashes)))

derive_target_address(secret, chain_id, notes_hash) ==
  Slice(sha256(pad_magic_label(MAGIC_ADDRESS) \o u64_to_bytes32(chain_id)
                 \o secret \o notes_hash), 12, 32)

derive_nullifier(secret, chain_id, note_index) ==
  sha256(pad_magic_label(MAGIC_NULLIFIER) \o u64_to_bytes32(chain_id)
           \o secret \o u64_to_bytes32(u32_as_u64(note_index)))

\* a faulty balance_gte_total that reads the low 128 bits only
balance_gte_total_low_half(balance, total) ==
  ~Less(Slice(balance, 16, 32), total)

balance_gte_total(balance, total) ==
  IF \E i \in 1..16 : balance[i] # 0 THEN TRUE
  ELSE ~Less(Slice(balance, 16, 32), total)

\* -------------------------------------------------------- claim evaluator
ClaimInput(block_number, block_hash, chain_id, note_index, amount, recipient, secret, note_count, amounts, recipient_hashes, block_header_rlp, proof_depth, proof_nodes, proof_node_lengths) ==
  [block_number |-> block_number, block_hash |-> block_hash, chain_id |-> chain_id,
   note_index |-> note_index, amount |-> amount, recipient |-> recipient,
   secret |-> secret, note_count |-> note_count, amounts |-> amounts,
   recipient_hashes |-> recipient_hashes, block_header_rlp |-> block_header_rlp,
   proof_depth |-> proof_depth, proof_nodes |-> proof_nodes,
   proof_node_lengths |-> proof_node_lengths]

\* the loop `for i in 0..note_count` over the amounts: the total amount
RECURSIVE TotalLoop(_, _, _, _)
TotalLoop(amounts, i, note_count, total_amount) ==
  IF i = note_count THEN Ok(total_amount)
  ELSE IF amounts[i + 1] = Fill(16, 0) THEN Err("InactiveNoteHasZeroAmount")
  ELSE Try(ok_or(checked_add(total_amount, amounts[i + 1]), "TotalAmountExceeded"),
           LAMBDA sum : TotalLoop(amounts, i + 1, note_count, sum))

\* the loop over proof_nodes zipped with proof_node_lengths
NodeLengthLoop(proof_nodes, proof_node_lengths) ==
  LET bad == {i \in 1..Len(proof_nodes) :
                \/ Len(proof_nodes[i]) # proof_node_lengths[i]
                \/ Len(proof_nodes[i]) > MAX_NODE_BYTES}
  IN IF bad = {} THEN Ok(TRUE)
     ELSE LET i == CHOOSE k \in bad : \A j \in bad : k <= j IN
          IF Len(proof_nodes[i]) # proof_node_lengths[i] THEN Err("ProofShapeMismatch")
          ELSE Err("ProofNodeTooLarge")

\* evaluate_claim from the address derivation on, the total amount known
EvaluateProof(claim, total_amount) ==
  Try(compute_notes_hash(claim.note_count, claim.amounts, claim.recipient_hashes),
      LAMBDA notes_hash :
        Try(parse_state_root_from_block_header(claim.block_hash, claim.block_number,
                                               claim.block_header_rlp),
            LAMBDA state_root :
              Try(verify_account_proof_and_get_balance(
                    state_root,
                    derive_target_address(claim.secret, claim.chain_id, notes_hash),
                    claim.proof_nodes),
                  LAMBDA account_balance :
                    IF ~balance_gte_total(account_balance, total_amount)
                    THEN Err("InsufficientAccountBalance")
                    ELSE Ok(ClaimJournal(claim.block_number, claim.block_hash,
                                         claim.chain_id, claim.amount, claim.recipient,
                                         derive_nullifier(claim.secret, claim.chain_id,
                                                          claim.note_index))))))

\* evaluate_claim from the totals on, the structural checks passed
EvaluateTotals(claim) ==
  Try(TotalLoop(claim.amounts, 0, claim.note_count, Fill(16, 0)),
      LAMBDA total_amount :
        IF Less(MAX_TOTAL_WEI, total_amount) THEN Err("TotalAmountExceeded")
        ELSE IF claim.proof_depth = 0 \/ claim.proof_depth > MAX_PROOF_DEPTH
        THEN Err("InvalidProofDepth")
        ELSE IF \/ claim.proof_depth # Len(claim.proof_nodes)
                \/ claim.proof_depth # Len(claim.proof_node_lengths)
        THEN Err("ProofShapeMismatch")
        ELSE Try(NodeLengthLoop(claim.proof_nodes, claim.proof_node_lengths),
                 LAMBDA shape : EvaluateProof(claim, total_amount)))

evaluate_claim(claim) ==
  LET note_count == claim.note_count
      note_index == claim.note_index
  IN IF note_count = 0 \/ note_count > MAX_NOTES THEN Err("InvalidNoteCount")
     ELSE IF note_index >= note_count THEN Err("InvalidNoteIndex")
     ELSE IF Len(claim.amounts) < note_count \/ Len(claim.recipient_hashes) < note_count
     THEN Err("InvalidInputLengths")
     ELSE IF claim.amounts[note_index + 1] # claim.amount
     THEN Err("SelectedAmountMismatch")
     ELSE IF claim.recipient_hashes[note_index + 1] # compute_recipient_hash(claim.recipient)
     THEN Err("RecipientHashMismatch")
     ELSE EvaluateTotals(claim)

\* ------------------------------------------------ inputs: claim witnesses
\* u128 values
U128(low) == Fill(16 - Len(low), 0) \o low

MaxU128 == Fill(16, 255)

\* MAX_TOTAL_WEI - 1
BelowMaxTotal == <<111, 5, 181, 157, 59, 31, 255, 255>>

\* the notes of a witness: the amounts and the index of the claimed note
Notes(amounts, note_index) == [amounts |-> amounts, note_index |-> note_index]

\* notes whose amounts are non-zero and add up to at most MAX_TOTAL_WEI
GoodNotes ==
  {Notes(<<U128(<<1>>)>>, 0),
   Notes(<<U128(<<1>>), U128(<<2>>)>>, 1),
   Notes(<<MAX_TOTAL_WEI>>, 0),
   Notes(<<U128(BelowMaxTotal), U128(<<1>>)>>, 1),
   Notes(<<U128(<<1>>), U128(<<2>>), U128(<<3>>), U128(<<4>>), U128(<<5>>)>>, 4)}

\* notes with a zero amount, or adding up to more than MAX_TOTAL_WEI, or both
BadNotes ==
  {Notes(<<U128(<<>>)>>, 0),
   Notes(<<U128(<<1>>), U128(<<>>)>>, 0),
   Notes(<<MAX_TOTAL_WEI, U128(<<1>>)>>, 1),
   Notes(<<MaxU128, U128(<<1>>)>>, 1),
   Notes(<<MaxU128, MaxU128, U128(<<2>>)>>, 2),
   Notes(<<MAX_TOTAL_WEI, U128(<<1>>), U128(<<>>)>>, 0),
   Notes(<<MaxU128, U128(<<1>>), U128(<<>>)>>, 1)}

\* account balances, as the bytes of the account's balance field
ClaimBalances ==
  {<<>>, <<2>>, <<3>>, <<14>>, <<15>>, BelowMaxTotal, Slice(MAX_TOTAL_WEI, 8, 16),
   <<1>> \o Fill(16, 0), Fill(32, 255)}

\* the proof of the account at key k, well formed or with the named fault
ClaimProofShapes(trie, k, acct) ==
  IF trie = "leaf" THEN <<LeafShape(k, acct)>>
  ELSE IF trie = "branch_leaf"
  THEN <<BranchShape(k[1], "hash_or_inline"), LeafShape(SubSeq(k, 2, 64), acct)>>
  ELSE IF trie = "child_reference_flipped"
  THEN <<BranchShape(k[1], "flipped"), LeafShape(SubSeq(k, 2, 64), acct)>>
  ELSE IF trie = "leaf_path_differs" THEN <<LeafShape(Bump(k, 7), acct)>>
  ELSE IF trie = "empty_branch_slot"
  THEN <<BranchShape(k[1], "empty"), LeafShape(SubSeq(k, 2, 64), acct)>>
  ELSE IF trie = "bad_account" THEN <<LeafShape(k, <<1, 2, 3>>)>>
  ELSE \* "child_length_overflows": a node whose child announces usize::MAX bytes
       <<RawShape(<<193 + UsizeBytes>> \o LongPrefix(183, Fill(UsizeBytes, 255)))>>

ValidTries == {"leaf", "branch_leaf"}

FaultyTries ==
  {"child_reference_flipped", "leaf_path_differs", "empty_branch_slot", "bad_account",
   "child_length_overflows"}

\* a witness built for the given notes, balance, proof and header; with it,
\* what it was built from
Witness(notes, balance_raw, trie, header) ==
  LET recipient == Ramp(20)
      secret == Reverse(Ramp(32))
      chain_id == Small(8, 0, 1)
      block_number == Small(8, 1, 2)
      note_count == Len(notes.amounts)
  IN With([i \in 1..note_count |->
             IF i = notes.note_index + 1
             THEN compute_recipient_hash(recipient) ELSE Fill(32, i)],
       LAMBDA recipient_hashes :
     With(EncodeFrom(ClaimProofShapes(
                       trie,
                       KeyOf(derive_target_address(
                               secret, chain_id,
                               compute_notes_hash(note_count, notes.amounts,
                                                  recipient_hashes).val)),
                       FullAccount(balance_raw)), 1),
       LAMBDA nodes :
     With(IF header = "valid"
          THEN make_block_header_rlp(block_number, keccak256(nodes[1]))
          ELSE encode_header(SubSeq(header_fields(block_number, keccak256(nodes[1])),
                                    1, 8)),
       LAMBDA blob :
         [claim |-> ClaimInput(block_number, keccak256(blob), chain_id, notes.note_index,
                               notes.amounts[notes.note_index + 1], recipient, secret,
                               note_count, notes.amounts, recipient_hashes, blob,
                               Len(nodes), nodes, [i \in 1..Len(nodes) |-> Len(nodes[i])]),
          balance_raw |-> balance_raw, trie |-> trie, header |-> header,
          header_number |-> block_number, changes |-> <<>>])))

\* the changes made to a witness after it was built, one field each
Changes ==
  <<"note_count_zero", "note_count_over", "note_index", "amounts_short", "hashes_short",
    "amount", "recipient", "depth_zero", "depth_over", "lengths_short", "length_wrong",
    "node_too_large", "block_hash", "block_number">>

Change(c, name) ==
  IF name = "note_count_zero" THEN [c EXCEPT !.note_count = 0]
  ELSE IF name = "note_count_over" THEN [c EXCEPT !.note_count = MAX_NOTES + 1]
  ELSE IF name = "note_index" THEN [c EXCEPT !.note_index = c.note_count]
  ELSE IF name = "amounts_short"
  THEN [c EXCEPT !.amounts = SubSeq(c.amounts, 1, Len(c.amounts) - 1)]
  ELSE IF name = "hashes_short"
  THEN [c EXCEPT !.recipient_hashes = SubSeq(c.recipient_hashes, 1,
                                             Len(c.recipient_hashes) - 1)]
  ELSE IF name = "amount" THEN [c EXCEPT !.amount = Fill(16, 7)]
  ELSE IF name = "recipient" THEN [c EXCEPT !.recipient = Fill(20, 9)]
  ELSE IF name = "depth_zero" THEN [c EXCEPT !.proof_depth = 0]
  ELSE IF name = "depth_over" THEN [c EXCEPT !.proof_depth = MAX_PROOF_DEPTH + 1]
  ELSE IF name = "lengths_short"
  THEN [c EXCEPT !.proof_node_lengths = SubSeq(c.proof_node_lengths, 1,
                                               Len(c.proof_node_lengths) - 1)]
  ELSE IF name = "length_wrong"
  THEN [c EXCEPT !.proof_node_lengths =
                   [i \in 1..Len(c.proof_node_lengths) |->
                      c.proof_node_lengths[i] + (IF i = 1 THEN 1 ELSE 0)]]
  ELSE IF name = "node_too_large"
  THEN [c EXCEPT !.proof_nodes = Append(c.proof_nodes, Fill(MAX_NODE_BYTES + 1, 0)),
                 !.proof_node_lengths = Append(c.proof_node_lengths, MAX_NODE_BYTES + 1),
                 !.proof_depth = c.proof_depth + 1]
  ELSE IF name = "block_hash" THEN [c EXCEPT !.block_hash = Flip(c.block_hash, 1)]
  ELSE \* "block_number"
       [c EXCEPT !.block_number = Small(8, 2, 2)]

\* the witness w changed as the names say, in their order
RECURSIVE Changed(_, _)
Changed(w, names) ==
  IF Len(names) = 0 THEN w
  ELSE Changed([w EXCEPT !.claim = Change(w.claim, names[1]),
                         !.changes = Append(w.changes, names[1])],
               Tail(names))

\* no change, every single change, and every two changes
ChangeLists ==
  {<<>>}
    \cup {<<Changes[i]>> : i \in 1..Len(Changes)}
    \cup {<<Changes[p[1]], Changes[p[2]]>> :
            p \in {q \in (1..Len(Changes)) \X (1..Len(Changes)) : q[1] < q[2]}}

\* witnesses that pass every check up to a given one and fail all later ones
GradedWitnesses ==
  {Witness(Notes(<<U128(<<1>>), U128(<<2>>)>>, 1), <<3>>, "leaf", "valid"),
   Witness(Notes(<<U128(<<1>>), U128(<<2>>)>>, 1), <<2>>, "branch_leaf", "valid"),
   Witness(Notes(<<U128(<<1>>), U128(<<2>>)>>, 1), <<2>>, "leaf_path_differs", "valid"),
   Witness(Notes(<<U128(<<1>>), U128(<<2>>)>>, 1), <<2>>, "leaf_path_differs", "short"),
   Witness(Notes(<<MaxU128, U128(<<1>>)>>, 1), <<2>>, "leaf_path_differs", "short")}

ClaimWitnesses ==
  {Witness(n, b, "leaf", "valid") : n \in GoodNotes \cup BadNotes, b \in ClaimBalances}
    \cup {Witness(Notes(<<U128(<<1>>), U128(<<2>>)>>, 1), b, t, h) :
            b \in {<<2>>, <<3>>}, t \in ValidTries \cup FaultyTries, h \in {"valid", "short"}}
    \cup {Changed(w, names) : w \in GradedWitnesses, names \in ChangeLists}

\* ------------------------------------------------------- calls: evaluator
CallEvaluateClaim ==
  /\ input.fn = "evaluate_claim"
  /\ ~output.done
  /\ output' = Returned(evaluate_claim(input.claim))
  /\ UNCHANGED <<serverVars, input>>

CallBalanceGteTotal ==
  /\ input.fn = "balance_gte_total"
  /\ ~output.done
  /\ output' = Returned(balance_gte_total(input.balance, input.total))
  /\ UNCHANGED <<serverVars, input>>

InitClaim ==
  \E w \in ClaimWitnesses, checks \in BOOLEAN :
    input = [fn |-> "evaluate_claim", overflow_checks |-> checks, claim |-> w.claim,
             balance_raw |-> w.balance_raw, trie |-> w.trie, header |-> w.header,
             header_number |-> w.header_number, changes |-> w.changes]

\* 256-bit balances and 128-bit totals around each other and around 2^128
SampleBalance256 ==
  {Fill(32, 0), Fill(32, 255), Fill(16, 0) \o MaxU128, Fill(15, 0) \o <<1>> \o Fill(16, 0),
   <<1>> \o Fill(31, 0), Fill(16, 0) \o MAX_TOTAL_WEI, Fill(16, 0) \o U128(BelowMaxTotal),
   Fill(16, 0) \o U128(<<3>>), Fill(15, 0) \o <<1>> \o U128(<<3>>),
   Fill(16, 0) \o U128(<<1, 0>>), Fill(16, 0) \o U128(<<0, 255>>),
   Fill(16, 0) \o <<1>> \o Fill(15, 0), Fill(16, 0) \o <<0>> \o Fill(15, 255)}

SampleTotals ==
  {Fill(16, 0), U128(<<3>>), U128(<<4>>), U128(<<1, 0>>), U128(<<0, 255>>), MAX_TOTAL_WEI,
   U128(BelowMaxTotal), MaxU128, <<1>> \o Fill(15, 0), <<0>> \o Fill(15, 255)}

InitBalance ==
  \E b \in SampleBalance256, t \in SampleTotals :
    input = [fn |-> "balance_gte_total", balance |-> b, total |-> t]

\* --------------------------------------------------- inputs: notes hashes
\* a note: its amount and its recipient hash
Note(amount, recipient_hash) == [amount |-> amount, recipient_hash |-> recipient_hash]

\* the notes a hash is taken over: i wei for the recipient hash of bytes i
CountedNotesOf(note_count) == [i \in 1..note_count |-> Note(U128(<<i>>), Fill(32, i))]

\* notes that follow the counted ones: the zero note, and notes that differ
\* from it in the amount, in the recipient hash, in the last byte of either
ExtraNotes ==
  {Note(Fill(16, 0), Fill(32, 0)),
   Note(U128(<<1>>), Fill(32, 0)),
   Note(<<1>> \o Fill(15, 0), Fill(32, 0)),
   Note(Fill(16, 0), Fill(31, 0) \o <<1>>),
   Note(Fill(16, 0), <<1>> \o Fill(31, 0))}

\* the sequences of n extra notes
RECURSIVE ExtraNoteSeqs(_)
ExtraNoteSeqs(n) ==
  IF n = 0 THEN {<<>>}
  ELSE {Append(rest, note) : rest \in ExtraNoteSeqs(n - 1), note \in ExtraNotes}

MaxExtraNotes == 3

\* compute_notes_hash over the counted notes, and over them and the extra notes
CallComputeNotesHash ==
  /\ input.fn = "compute_notes_hash"
  /\ ~output.done
  /\ LET notes == input.notes \o input.extra
         amounts == [i \in 1..Len(notes) |-> notes[i].amount]
         recipient_hashes == [i \in 1..Len(notes) |-> notes[i].recipient_hash]
         more == input.note_count + Len(input.extra)
     IN output' = Returned(
          [counted |-> compute_notes_hash(input.note_count, amounts, recipient_hashes),
           counted_buf |-> notes_buffer(input.note_count, amounts, recipient_hashes),
           extended |-> compute_notes_hash(more, amounts, recipient_hashes),
           extended_buf |-> notes_buffer(more, amounts, recipient_hashes)])
  /\ UNCHANGED <<serverVars, input>>

InitNotesHash ==
  \E note_count \in 1..(MAX_NOTES - 1) :
    \E k \in 1..(IF MAX_NOTES - note_count < MaxExtraNotes
                 THEN MAX_NOTES - note_count ELSE MaxExtraNotes) :
      \E extra \in ExtraNoteSeqs(k) :
        input = [fn |-> "compute_notes_hash", note_count |-> note_count,
                 notes |-> CountedNotesOf(note_count), extra |-> extra]

\* ------------------------------------------------------ workspace scanner
\* file names are byte strings (ASCII); String's order is the order of the bytes
DepositPrefix == <<100, 101, 112, 111, 115, 105, 116, 45>>   \* "deposit-"
JsonSuffix == <<46, 106, 115, 111, 110>>                     \* ".json"
ProofInfix == <<46, 112, 114, 111, 111, 102, 45>>            \* ".proof-"
ProofMark == <<46, 112, 114, 111, 111, 102>>                 \* ".proof"

starts_with(name, prefix) ==
  Len(name) >= Len(prefix) /\ SubSeq(name, 1, Len(prefix)) = prefix

ends_with(name, suffix) ==
  Len(name) >= Len(suffix)
    /\ SubSeq(name, Len(name) - Len(suffix) + 1, Len(name)) = suffix

\* str::find: the byte index of the first occurrence of the pattern
find(name, pattern) ==
  LET at == {i \in 0..(Len(name) - Len(pattern)) :
               SubSeq(name, i + 1, i + Len(pattern)) = pattern}
  IN IF at = {} THEN None ELSE Some(CHOOSE i \in at : \A j \in at : i <= j)

contains(name, pattern) == find(name, pattern).some

strip_suffix(name, suffix) ==
  IF ends_with(name, suffix)
  THEN Some(SubSeq(name, 1, Len(name) - Len(suffix))) ELSE None

unwrap_or(option, default) == IF option.some THEN option.val ELSE default

is_deposit_filename(name) ==
  starts_with(name, DepositPrefix) /\ ends_with(name, JsonSuffix)
    /\ ~contains(name, ProofMark)

is_proof_filename(name) ==
  starts_with(name, DepositPrefix) /\ contains(name, ProofInfix)
    /\ ends_with(name, JsonSuffix)

deposit_stem(filename) == unwrap_or(strip_suffix(filename, JsonSuffix), filename)

proof_deposit_stem(proof_filename) ==
  LET name == unwrap_or(strip_suffix(proof_filename, JsonSuffix), proof_filename)
      idx == find(name, ProofInfix)
  IN IF idx.some THEN Some(SubSeq(name, 1, idx.val)) ELSE None

\* Ord for String: lexicographic on the bytes, a proper prefix is less
RECURSIVE StrLess(_, _)
StrLess(a, b) ==
  IF Len(b) = 0 THEN FALSE
  ELSE IF Len(a) = 0 THEN TRUE
  ELSE IF a[1] # b[1] THEN a[1] < b[1]
  ELSE StrLess(Tail(a), Tail(b))

\* sort() of distinct strings
RECURSIVE SortStrings(_)
SortStrings(names) ==
  IF names = {} THEN <<>>
  ELSE LET least == CHOOSE n \in names : \A m \in names \ {n} : StrLess(n, m)
       IN <<least>> \o SortStrings(names \ {least})

\* a faulty choice among the sorted proofs of a stem: the first one
oldest_proof(proofs) == IF Len(proofs) = 0 THEN None ELSE Some(proofs[1])

\* proofs.into_iter().last()
newest_proof(proofs) == IF Len(proofs) = 0 THEN None ELSE Some(proofs[Len(proofs)])

\* proof_map.get(stem): the proof lookup built from the proof filenames
proof_map_get(proof_files, stem) ==
  newest_proof(SortStrings({pf \in proof_files : proof_deposit_stem(pf) = Some(stem)}))

\* validate_proof_file: a proof file that cannot be read is not valid
validate_proof_file(dir, proof_filename) ==
  \E e \in dir : e.name = proof_filename /\ e.is_file /\ e.content.kind = "proof"
                   /\ e.content.has_seal

\* process_deposit on the parsed content of the file
process_deposit(filename, content, proof_files, dir) ==
  IF content.kind # "deposit" THEN Err("json")
  ELSE IF content.version # "v2" THEN Err("unsupported version")
  ELSE IF content.note_count = 0 \/ content.note_count > MAX_NOTES
  THEN Err("invalid note count")
  ELSE IF ~content.fields_parse THEN Err("parse")
  ELSE IF content.target_address = "mismatch" THEN Err("targetAddress mismatch")
  ELSE LET stem == deposit_stem(filename)
           proof_file == proof_map_get(proof_files, stem)
       IN Ok([id |-> stem, filename |-> filename, note_count |-> content.note_count,
              has_proof |-> proof_file.some, proof_file |-> proof_file,
              proof_valid |-> IF proof_file.some
                              THEN Some(validate_proof_file(dir, proof_file.val))
                              ELSE None])

\* scan_workspace on the entries of the directory
scan_workspace(dir) ==
  LET deposit_files == {e \in dir : e.is_file /\ is_deposit_filename(e.name)}
      proof_files == {e.name : e \in {x \in dir : x.is_file /\ ~is_deposit_filename(x.name)
                                                     /\ is_proof_filename(x.name)}}
      processed == [e \in deposit_files |->
                      process_deposit(e.name, e.content, proof_files, dir)]
      kept == {e \in deposit_files : processed[e].ok}
      sorted == SortStrings({e.name : e \in kept})
  IN [i \in 1..Len(sorted) |->
        processed[CHOOSE e \in kept : e.name = sorted[i]].val]

\* ------------------------------------------------- inputs: workspaces
StemA == DepositPrefix \o <<97>>          \* "deposit-a"
StemB == DepositPrefix \o <<98>>          \* "deposit-b"
StemC == DepositPrefix \o <<99>>          \* "deposit-c"

DepositName(stem) == stem \o JsonSuffix
ProofName(stem, timestamp) == stem \o ProofInfix \o timestamp \o JsonSuffix

DirEntry(name, is_file, content) == [name |-> name, is_file |-> is_file, content |-> content]

DepositContent(version, note_count, fields_parse, target_address) ==
  [kind |-> "deposit", version |-> version, note_count |-> note_count,
   fields_parse |-> fields_parse, target_address |-> target_address]

ProofContent(has_seal) == [kind |-> "proof", has_seal |-> has_seal]

NotJson == [kind |-> "garbage"]

\* the contents a deposit file is given: two valid ones and one for each check
DepositContents ==
  {DepositContent("v2", 1, TRUE, "absent"), DepositContent("v2", MAX_NOTES, TRUE, "match"),
   NotJson, DepositContent("v1", 1, TRUE, "absent"),
   DepositContent("v2", 0, TRUE, "absent"), DepositContent("v2", MAX_NOTES + 1, TRUE, "absent"),
   DepositContent("v2", 1, FALSE, "absent"), DepositContent("v2", 1, TRUE, "mismatch")}

\* the proof files of deposit-a: "1" < "10" < "2" as strings
ProofsOfA ==
  {DirEntry(ProofName(StemA, <<49>>), TRUE, ProofContent(FALSE)),
   DirEntry(ProofName(StemA, <<49, 48>>), TRUE, ProofContent(TRUE)),
   DirEntry(ProofName(StemA, <<50>>), TRUE, ProofContent(TRUE))}

\* entries that may be there beside the deposits and the proofs of deposit-a: a
\* proof of deposit-b, an orphan proof, a directory and a backup named as proofs
\* of deposit-a
OtherEntries ==
  {DirEntry(ProofName(StemB, <<49>>), TRUE, ProofContent(TRUE)),
   DirEntry(ProofName(StemC, <<57>>), TRUE, ProofContent(TRUE)),
   DirEntry(ProofName(StemA, <<57>>), FALSE, NotJson)}

\* entries of every workspace: random.json and a backup of a proof (.bkup)
FixedEntries ==
  {DirEntry(<<114, 97, 110, 100, 111, 109>> \o JsonSuffix, TRUE, NotJson),
   DirEntry(StemA \o ProofInfix \o <<51>> \o <<46, 98, 107, 117, 112>>, TRUE, ProofContent(TRUE))}

Workspaces ==
  {FixedEntries \cup a \cup b \cup proofs \cup others :
     a \in {{}} \cup {{DirEntry(DepositName(StemA), TRUE, c)} : c \in DepositContents},
     b \in {{}, {DirEntry(DepositName(StemB), TRUE, DepositContent("v2", 1, TRUE, "absent"))},
            {DirEntry(DepositName(StemB), TRUE, DepositContent("v1", 1, TRUE, "absent"))}},
     proofs \in SUBSET ProofsOfA,
     others \in SUBSET OtherEntries}

CallScanWorkspace ==
  /\ input.fn = "scan_workspace"
  /\ ~output.done
  /\ output' = Returned(scan_workspace(input.dir))
  /\ UNCHANGED <<serverVars, input>>

InitScan == \E dir \in Workspaces : input = [fn |-> "scan_workspace", dir |-> dir]

\* ----------------------------------------------------- RPC: eth_get_block
\* a JSON value of the block object: absent, a string of hex digits after its
\* "0x" (a digit 0..15, or NotHex for any other character), or another value
NotHex == 16
Absent == [type |-> "absent"]
NotString == [type |-> "number"]
HexString(digits) == [type |-> "string", digits |-> digits]

\* the hex digits of the bytes
HexOf(bytes) ==
  [i \in 1..(2 * Len(bytes)) |->
     IF i % 2 = 1 THEN bytes[(i + 1) \div 2] \div 16 ELSE bytes[i \div 2] % 16]

\* hex::decode of an even number of characters
hex_decode(digits) ==
  IF \E i \in 1..Len(digits) : digits[i] = NotHex THEN Err("invalid hex string")
  ELSE Ok([i \in 1..(Len(digits) \div 2) |-> digits[2 * i - 1] * 16 + digits[2 * i]])

parse_hex_bytes(digits) ==
  IF Len(digits) = 0 THEN Ok(<<>>)
  ELSE hex_decode(IF Len(digits) % 2 = 1 THEN <<0>> \o digits ELSE digits)

\* trim_start_matches('0')
RECURSIVE TrimZeros(_)
TrimZeros(digits) ==
  IF Len(digits) > 0 /\ digits[1] = 0 THEN TrimZeros(Tail(digits)) ELSE digits

\* u64::from_str_radix(stripped, 16): the value as its significant hex digits
parse_hex_u64(digits) ==
  IF Len(digits) = 0 \/ \E i \in 1..Len(digits) : digits[i] = NotHex
  THEN Err("invalid hex u64")
  ELSE IF Len(TrimZeros(digits)) > 16 THEN Err("invalid hex u64")
  ELSE Ok(TrimZeros(digits))

normalize_quantity(digits) ==
  LET trimmed == TrimZeros(digits)
      decoded == hex_decode(IF Len(trimmed) % 2 = 1 THEN <<0>> \o trimmed ELSE trimmed)
  IN IF Len(trimmed) = 0 THEN <<>>
     ELSE IF decoded.ok THEN decoded.val ELSE <<>>

\* encode_block_header_rlp: of the 17 fields, `number` is read as it is in the
\* block object and the other ones are the well-formed ones of block.header
encode_block_header_rlp(block) ==
  encode_header([i \in 1..Len(block.header) |->
                   IF i = 9
                   THEN IF block.number.type = "string"
                        THEN normalize_quantity(block.number.digits) ELSE <<>>
                   ELSE block.header[i]])

BlockData(number, hash, header_rlp) ==
  [number |-> number, hash |-> hash, header_rlp |-> header_rlp]

\* `if let Some(reported_hash) = block.get("hash").and_then(|v| v.as_str())`
CheckReportedHash(reported_hash, hash, data) ==
  IF reported_hash.type # "string" THEN Ok(data)
  ELSE Try(parse_hex_bytes(reported_hash.digits),
           LAMBDA reported :
             IF Len(reported) = 32 /\ reported # hash
             THEN Err("block hash mismatch") ELSE Ok(data))

\* eth_get_block on the block object that the RPC call returned
eth_get_block(block) ==
  IF block.number.type # "string" THEN Err("missing block number")
  ELSE Try(parse_hex_u64(block.number.digits),
           LAMBDA number :
             With(encode_block_header_rlp(block),
                  LAMBDA header_rlp :
                    CheckReportedHash(block.hash, keccak256(header_rlp),
                                      BlockData(number, keccak256(header_rlp), header_rlp))))

\* ------------------------------------------------- inputs: block objects
BlockNumbers == {HexString(<<1, 2>>), HexString(<<0, 0, 1, 2, 3>>), HexString(<<>>), Absent}

BlockObject(number, state_root, hash) ==
  [number |-> number, header |-> header_fields(Fill(8, 0), state_root), hash |-> hash]

\* the hash that the header of the block object hashes to
HeaderHash(number, state_root) ==
  keccak256(encode_block_header_rlp(BlockObject(number, state_root, Absent)))

\* what the node reports as the hash: the hash, other 32 bytes, the hash cut or
\* extended, an odd number of digits, no digits, no hex, no string, or nothing
ReportedHashes(hash) ==
  {HexString(HexOf(hash)), HexString(HexOf(Flip(hash, 1))), HexString(HexOf(Flip(hash, 32))),
   HexString(HexOf(SubSeq(hash, 1, 31))), HexString(HexOf(hash \o <<0>>)),
   HexString(Tail(HexOf(hash))), HexString(<<>>), HexString(<<1, 2>>),
   HexString(<<NotHex>> \o Tail(HexOf(hash))), NotString, Absent}

BlockObjects ==
  UNION {{BlockObject(n, r, h) : h \in ReportedHashes(HeaderHash(n, r))} :
           n \in BlockNumbers, r \in SampleStateRoots}

CallEthGetBlock ==
  /\ input.fn = "eth_get_block"
  /\ ~output.done
  /\ output' = Returned(eth_get_block(input.block))
  /\ UNCHANGED <<serverVars, input>>

InitBlock == \E block \in BlockObjects : input = [fn |-> "eth_get_block", block |-> block]

\* ------------------------------------------------- the core specification
InitCore ==
  /\ InitServer
  /\ output = Pending
  /\ \/ InitJournal \/ InitRlp \/ InitTrie \/ InitHeader \/ InitClaim \/ InitBalance
     \/ InitNotesHash \/ InitRlpItem \/ InitTrieLoop \/ InitScan
     \/ InitBlock

NextCore ==
  \/ CallPackUnpack
  \/ CallUnpackJournal
  \/ CallDecodeRlpList
  \/ CallVerifyAccountProof
  \/ CallParseStateRoot
  \/ CallEvaluateClaim
  \/ CallBalanceGteTotal
  \/ CallComputeNotesHash
  \/ CallDecodeRlpItem
  \/ VerifyLoopStep
  \/ CallScanWorkspace
  \/ CallEthGetBlock

\* calls of the pure functions of shadow-proof-core and of the server, each on
\* one of its inputs
SpecCore == InitCore /\ [][NextCore]_vars

\* ================================================================ claims

\* C1: under any interleaving of prove requests, cancel requests and pipeline
\* steps, at most one proof pipeline (a spawned run_pipeline that has not yet
\* returned) is executing at any time.
C1_AtMostOnePipeline == Cardinality({p \in Pids : Executing(p)}) <= 1

\* C2: enqueue returns an error whenever the job in the slot is Queued or
\* Running, and then leaves the stored job unchanged and broadcasts no
\* proof:started; it succeeds exactly when the slot is empty or its job is
\* Completed, Failed or Cancelled, and then the slot holds a fresh Queued job of
\* the requested deposit with currentNote 0 and no error.
C2_Enqueue ==
  [][\A p \in Pids :
       (sp[p].pc = "enqueue" /\ sp'[p].pc # "enqueue") =>
          IF current # NoJob /\ current.status \in {"Queued", "Running"}
          THEN /\ sp'[p].resp = "409"
               /\ current' = current
               /\ events' = events
          ELSE /\ sp'[p].resp # "409"
               /\ current'.status = "Queued"
               /\ current'.deposit_id = sp[p].deposit
               /\ current'.total_notes = sp[p].note_count
               /\ current'.current_note = 0
               /\ current'.error = "None"
               /\ \E e \in events'[p] : e.type = "proof:started"]_vars

\* a prove request was refused with 409 while another request's job held the slot
C2_Witness ==
  \E p \in Pids : /\ sp[p].resp = "409"
                  /\ slotOwner \in Pids \ {p}
                  /\ current.status \in {"Queued", "Running"}

\* the edges of the queue's state diagram
StatusEdges ==
  {<<"Queued", "Running">>, <<"Running", "Running">>, <<"Running", "Completed">>,
   <<"Running", "Failed">>, <<"Running", "Cancelled">>, <<"Queued", "Cancelled">>,
   <<"Queued", "Failed">>}

\* C3: as long as the slot holds the same job (no new enqueue, no clear), its
\* status changes only along the edges of the state diagram; in particular a
\* Completed, Failed or Cancelled job keeps its status.
C3_StatusEdges ==
  [][(current # NoJob /\ current' # NoJob /\ slotOwner' = slotOwner
        /\ current'.status # current.status)
       => <<current.status, current'.status>> \in StatusEdges]_vars

\* C4: when cancel() is called while the job is Running, the sender is found and
\* the signal is delivered to the channel of that job's pipeline, cancel() goes
\* on to mark the job Cancelled, and a pipeline whose signal was sent while it
\* worked on note i proves no note after note i.
C4_CancelWhileRunning ==
  /\ [][\A c \in Cids :
          (cj[c].pc = "new" /\ cj'[c].pc # "new"
             /\ current # NoJob /\ current.status = "Running")
            => /\ cj'[c].pc = "mark"
               /\ chan'[slotOwner] = "sent"]_vars
  /\ [](\A p \in Pids : pipe[p].sentAt >= 0 => pipe[p].i <= pipe[p].sentAt + 1)

\* C5: a job whose pipeline received the cancellation signal and returned on it
\* is not reported as failed: no proof:failed event is broadcast for it and,
\* once its task has ended, it is Cancelled with its error unset.
C5_CancelledNotFailed ==
  \A p \in Pids :
    (pipe[p].err = "cancelled" /\ chan[p] = "sent") =>
       /\ \A e \in events[p] : e.type # "proof:failed"
       /\ (slotOwner = p /\ pipe[p].pc = "done")
            => (current.status = "Cancelled" /\ current.error = "None")

\* the slot holds a finished job and no handler or task is at work
Idle ==
  /\ current # NoJob
  /\ current.status \in Terminal
  /\ \A q \in Pids : sp[q].pc \in {"new", "done"} /\ pipe[q].pc \in {"idle", "done"}
  /\ \A c \in Cids : cj[c].pc \in {"new", "done"}

\* C6: a DELETE /queue/current issued when the job in the slot is terminal and
\* nothing is running goes on to clear the slot; it does not mark the finished
\* job Cancelled and leave it in the slot.
C6_DeleteTerminalClears ==
  [][\A c \in Cids :
       (cj[c].pc = "new" /\ cj'[c].pc # "new" /\ Idle) => cj'[c].pc = "clear"]_vars

\* the sequence 0, 1, ..., Len(s) - 1
InOrder(s) == \A k \in 1..Len(s) : s[k] = k - 1

\* C7: within one proof job the pipeline proves the notes in the order
\* 0, 1, ..., noteCount-1, each once: the results pushed so far are those of
\* notes 0..i-1, i moves one note at a time, a pipeline that returns Ok has a
\* result for every note, and a written bundle has notes[k].noteIndex = k; each
\* proof:note_progress event a task sends carries a noteIndex no smaller than
\* that of the progress event it sent before.
C7_NotesInOrder ==
  /\ [](\A p \in Pids :
          /\ InOrder(pipe[p].results)
          /\ Len(pipe[p].results) = pipe[p].i
          /\ pipe[p].pc \in {"task_ok", "task_write_err", "task_complete", "task_ws"}
               => Len(pipe[p].results) = pipe[p].note_count
          /\ \A f \in proofFiles : f.by = p => InOrder(f.notes))
  /\ [][\A p \in Pids :
          /\ pipe'[p].i \in {pipe[p].i, pipe[p].i + 1}
          /\ \A e \in events'[p] \ events[p] :
               e.type = "proof:note_progress" =>
                 \A o \in events[p] :
                   o.type = "proof:note_progress" => o.noteIndex <= e.noteIndex]_vars

\* a task proved both notes of dA, announced the second and wrote the bundle
C7_Witness ==
  \E p \in Pids :
    /\ pipe[p].pc = "task_complete"
    /\ pipe[p].results = <<0, 1>>
    /\ \E e \in events[p] : e.type = "proof:note_progress" /\ e.noteIndex = 1

\* C8: a proof file written by a job holds exactly noteCount note entries and
\* is written only after the job proved every note of the deposit; a job that
\* failed at the deposit load, an RPC step or a note's proving wrote no file.
C8_ProofFileComplete ==
  \A p \in Pids :
    /\ \A f \in proofFiles :
         f.by = p => /\ f.stem = sp[p].deposit
                     /\ Len(f.notes) = NoteCountOf(f.stem)
                     /\ pipe[p].i = NoteCountOf(f.stem)
    /\ pipe[p].err \in {"deposit", "rpc", "prover"}
         => ~\E f \in proofFiles : f.by = p

\* one job wrote the two-note proof file of dA and another job failed in a note
C8_Witness ==
  /\ \E f \in proofFiles : f.by \in Pids /\ f.stem = "dA" /\ f.ext = "json"
  /\ \E p \in Pids : pipe[p].pc = "done" /\ pipe[p].err = "prover"

\* C9: when the prover fails on note i, the proof:failed event and the job's
\* message carry noteIndex = i; a failed deposit load or RPC step carries 0.
C9_FailedNoteIndex ==
  \A p \in Pids :
    /\ \A e \in events[p] :
         e.type = "proof:failed" /\ e.detail \in {"deposit", "rpc", "prover"} =>
           e.noteIndex = (IF e.detail = "prover" THEN pipe[p].i ELSE 0)
    /\ (slotOwner = p /\ current.status = "Failed" /\ current.error = "prover"
          /\ pipe[p].err = "prover")
         => current.message.note = pipe[p].i

\* the operation that made the file mutation x has ended: the handler returned
\* and, for a prove request, its task is over
OperationEnded(x) ==
  IF x[1] = "delete_deposit" THEN TRUE
  ELSE IF x[1] = "force_rename"
       THEN sp[x[2]].pc = "done" /\ pipe[x[2]].pc \in {"idle", "done"}
       ELSE pipe[x[2]].pc = "done"

\* C10: every operation that created, deleted or renamed a workspace file is
\* followed by a workspace:changed event, also when it ends in an error: no
\* operation has ended with a mutation that no workspace:changed followed.
C10_WorkspaceChanged == \A x \in dirtyBy : ~OperationEnded(x)

\* C14: for every journal j, unpack_journal(pack_journal(j)) equals j field by
\* field and pack_journal yields exactly 116 bytes; unpack_journal(b) fails, with
\* expected = 116 and actual = |b|, if and only if |b| is not 116.
C14_JournalRoundTrip ==
  /\ (input.fn = "pack_unpack" /\ output.done) =>
       /\ Len(output.ret.packed) = 116
       /\ output.ret.unpacked.ok
       /\ \A f \in {"block_number", "block_hash", "chain_id", "amount", "recipient",
                    "nullifier"} :
            output.ret.unpacked.val[f] = input.journal[f]
  /\ (input.fn = "unpack_journal" /\ output.done) =>
       /\ output.ret.ok <=> Len(input.bytes) = 116
       /\ ~output.ret.ok =>
            (output.ret.expected = 116 /\ output.ret.actual = Len(input.bytes))

\* a journal whose integer fields are not palindromes went through pack and unpack
C14_Witness ==
  /\ input.fn = "pack_unpack"
  /\ output.done
  /\ input.journal.block_number = Small(8, 1, 2)
  /\ input.journal.amount = Ramp(16)

\* C15: decode_rlp_list_payload_items returns InvalidRlpNode for every input
\* whose outermost item is not a list, whose outer list is truncated or followed
\* by trailing bytes, with a child that is a list, with a truncated
\* length-of-length field, or with a child whose declared length runs past the
\* end of the list payload.
C15_MalformedRlpRejected ==
  (input.fn = "decode_rlp_list_payload_items" /\ output.done
     /\ input.kind \in {"not_a_list", "truncated", "trailing", "child_is_list",
                        "length_of_length_truncated", "child_past_end"})
    => output.ret = Err("InvalidRlpNode")

\* C16: a long-form byte string or long-form list whose declared payload length
\* is zero is rejected by the decoder with InvalidRlpNode.
C16_ZeroLengthLongFormRejected ==
  (input.fn = "decode_rlp_list_payload_items" /\ output.done
     /\ input.kind = "zero_length_long_form")
    => output.ret = Err("InvalidRlpNode")

\* the call of verify_account_proof_and_get_balance has returned
VerifyReturned ==
  input.fn = "verify_account_proof_and_get_balance" /\ output.done

\* the nibbles consumed by the first n nodes of a described proof: one per
\* branch step, the path of an extension or a leaf
RECURSIVE Consumed(_, _)
Consumed(shapes, n) ==
  IF n = 0 THEN <<>>
  ELSE Consumed(shapes, n - 1)
         \o (IF shapes[n].t = "branch" THEN <<shapes[n].slot>>
             ELSE IF shapes[n].t \in {"leaf", "extension"} THEN shapes[n].path
             ELSE <<>>)

\* the reference that the parent of node i (i > 1) holds where the key leads:
\* the next-node slot of an extension, the child slot of a branch at the
\* key's nibble (empty when the branch keeps its child elsewhere)
SelectedRef(i) ==
  LET parent == input.shape[i - 1]
      at == Len(Consumed(input.shape, i - 2))
      key == KeyOf(input.target_address)
      held == ChildRef(input.proof_nodes[i], parent.ref)
  IN IF parent.t = "extension" THEN held
     ELSE IF parent.t = "branch" /\ at < Len(key) /\ parent.slot = key[at + 1] THEN held
     ELSE <<>>

\* a node matches a reference of at most 32 bytes: by its Keccak-256 when the
\* reference has 32 bytes, byte for byte when it is shorter, never when empty
RefMatches(node, reference) ==
  /\ Len(reference) # 0
  /\ Len(reference) = 32 => keccak256(node) = reference
  /\ Len(reference) < 32 => node = reference

\* C17: verify_account_proof_and_get_balance returns a balance only if the
\* Keccak-256 of the first proof node is the state root and every later node
\* matches the reference its parent holds for it (by hash for a 32-byte
\* reference, byte for byte for a shorter one, never for an empty one); a
\* first node that does not hash to the state root, and a proof whose state
\* root or child reference has one bit changed, yield InvalidNodeReference.
C17_NodeReferences ==
  VerifyReturned =>
    /\ output.ret.ok =>
         /\ Len(input.proof_nodes) >= 1
         /\ keccak256(input.proof_nodes[1]) = input.state_root
         /\ \A i \in 2..Len(input.proof_nodes) :
              RefMatches(input.proof_nodes[i], SelectedRef(i))
    /\ (Len(input.proof_nodes) >= 1 /\ keccak256(input.proof_nodes[1]) # input.state_root)
         => output.ret = Err("InvalidNodeReference")
    /\ input.kind \in {"state_root_flipped", "child_reference_flipped",
                       "inline_reference_differs"}
         => output.ret = Err("InvalidNodeReference")

\* C17 witness: a balance is returned for a proof of three nodes whose second
\* node is referred to by hash and whose third node is inlined in its parent.
C17_Witness ==
  /\ VerifyReturned
  /\ output.ret.ok
  /\ Len(input.proof_nodes) = 3
  /\ Len(SelectedRef(2)) = 32
  /\ Len(SelectedRef(3)) \in 1..31

\* C18: a trie walk that meets an empty reference before the account (the
\* empty child slot of a branch at the key's nibble, or the empty next-node
\* reference of an extension) fails with MissingAccountValue.
C18_EmptyReferenceIsMissingAccount ==
  (VerifyReturned /\ input.kind \in {"empty_branch_slot", "empty_extension_reference"})
    => output.ret = Err("MissingAccountValue")

\* C19: verify_account_proof_and_get_balance returns a balance only if the
\* nibbles consumed along the proof are exactly the 64 nibbles of
\* Keccak256(address), in order, and the node holding the account value is
\* the last node supplied; a leaf or an extension whose path differs from the
\* key in a nibble yields InvalidTriePath.
C19_KeyPath ==
  VerifyReturned =>
    /\ output.ret.ok =>
         LET n == Len(input.shape) IN
         /\ n >= 1
         /\ \A i \in 1..n : input.shape[i].t # "raw"
         /\ Consumed(input.shape, n) = hash_to_nibbles(keccak256(input.target_address))
         /\ \A i \in 1..n : input.shape[i].t \in {"leaf", "branch_value"} <=> i = n
    /\ input.kind \in {"leaf_path_differs", "extension_path_differs"}
         => output.ret = Err("InvalidTriePath")

\* C19 witness: a balance is returned for a proof that goes through an
\* extension of two nibbles, a branch and a leaf.
C19_Witness ==
  /\ VerifyReturned
  /\ output.ret.ok
  /\ Len(input.shape) = 3
  /\ input.shape[1].t = "extension"
  /\ Len(input.shape[1].path) = 2
  /\ input.shape[3].t = "leaf"

\* the call of parse_state_root_from_block_header has returned
ParseReturned ==
  input.fn = "parse_state_root_from_block_header" /\ output.done

\* the header blob is the list of input.fields, with a 32-byte field 3 and a
\* field 8 of at most 8 bytes
WellShapedHeader ==
  /\ input.block_header_rlp = encode_header(input.fields)
  /\ Len(input.fields) >= 9
  /\ Len(input.fields[4]) = 32
  /\ Len(input.fields[9]) <= 8

\* field 8 of the header, read as a big-endian number, is the 64-bit number n
Field8Is(n) ==
  Fill(8 - Len(input.fields[9]), 0) \o input.fields[9] = n

\* C20: parse_state_root_from_block_header(h, n, blob) returns field 3 of the
\* header when Keccak256(blob) = h and field 8 decodes to n; it returns
\* InvalidBlockHeaderHash whenever Keccak256(blob) differs from h, whatever
\* the blob holds; it returns BlockNumberMismatch when the hash matches, the
\* header is well shaped and field 8 differs from n.
C20_HeaderStateRoot ==
  ParseReturned =>
    /\ keccak256(input.block_header_rlp) # input.expected_block_hash
         => output.ret = Err("InvalidBlockHeaderHash")
    /\ (keccak256(input.block_header_rlp) = input.expected_block_hash /\ WellShapedHeader)
         => IF Field8Is(input.expected_block_number)
            THEN output.ret = Ok(input.fields[4])
            ELSE output.ret = Err("BlockNumberMismatch")
    /\ output.ret.ok
         => (WellShapedHeader /\ Field8Is(input.expected_block_number)
             /\ keccak256(input.block_header_rlp) = input.expected_block_hash)

\* C20 witness: the state root Ramp(32) is returned for a header of 17 fields
\* whose number 0x0102 is the expected one.
C20_Witness ==
  /\ ParseReturned
  /\ output.ret = Ok(Ramp(32))
  /\ Len(input.fields) = 17
  /\ input.expected_block_number = Small(8, 1, 2)

\* the call of evaluate_claim has returned
EvalReturned == input.fn = "evaluate_claim" /\ output.done

\* the notes that the witness counts and supplies
CountedNotes ==
  1..(IF input.claim.note_count < Len(input.claim.amounts)
      THEN input.claim.note_count ELSE Len(input.claim.amounts))

\* the mathematical sum of the first n amounts, as a number of 32 bytes
RECURSIVE SumOfAmounts(_, _)
SumOfAmounts(amounts, n) ==
  IF n = 0 THEN Fill(32, 0)
  ELSE Tail(AddBytes(SumOfAmounts(amounts, n - 1), Fill(16, 0) \o amounts[n]))

TotalOfNotes == SumOfAmounts(input.claim.amounts, Cardinality(CountedNotes))

HasZeroAmount == \E i \in CountedNotes : input.claim.amounts[i] = Fill(16, 0)

TotalExceedsMax == Less(Fill(16, 0) \o MAX_TOTAL_WEI, TotalOfNotes)

\* the balance that the account of the witness holds, as a 256-bit number
AccountBalance == Fill(32 - Len(input.balance_raw), 0) \o input.balance_raw

\* the checks of evaluate_claim, in the order of the specification
NoteCountBad == input.claim.note_count \notin 1..MAX_NOTES

NoteIndexBad == input.claim.note_index >= input.claim.note_count

LengthsBad ==
  \/ Len(input.claim.amounts) < input.claim.note_count
  \/ Len(input.claim.recipient_hashes) < input.claim.note_count

AmountBad ==
  /\ input.claim.note_index < Len(input.claim.amounts)
  /\ input.claim.amounts[input.claim.note_index + 1] # input.claim.amount

RecipientBad ==
  /\ input.claim.note_index < Len(input.claim.recipient_hashes)
  /\ input.claim.recipient_hashes[input.claim.note_index + 1]
       # sha256(pad_magic_label(MAGIC_RECIPIENT) \o Fill(12, 0) \o input.claim.recipient)

DepthBad == input.claim.proof_depth \notin 1..MAX_PROOF_DEPTH

ShapeBad ==
  LET nodes == input.claim.proof_nodes
      lengths == input.claim.proof_node_lengths
  IN \/ input.claim.proof_depth # Len(nodes)
     \/ input.claim.proof_depth # Len(lengths)
     \/ \E i \in 1..Len(nodes) : Len(nodes[i]) # lengths[i] \/ Len(nodes[i]) > MAX_NODE_BYTES

HeaderHashBad == keccak256(input.claim.block_header_rlp) # input.claim.block_hash

HeaderShapeBad == input.header # "valid"

HeaderNumberBad == input.header_number # input.claim.block_number

TrieBad == input.trie \notin ValidTries

BalanceBad == Less(AccountBalance, TotalOfNotes)

\* the errors that report each check, in the order of the checks
CheckErrors ==
  <<{"InvalidNoteCount"},
    {"InvalidNoteIndex"},
    {"InvalidInputLengths"},
    {"SelectedAmountMismatch"},
    {"RecipientHashMismatch"},
    {"InactiveNoteHasZeroAmount", "TotalAmountExceeded"},
    {"InvalidProofDepth"},
    {"ProofShapeMismatch", "ProofNodeTooLarge"},
    {"InvalidBlockHeaderHash"},
    {"InvalidBlockHeaderShape"},
    {"BlockNumberMismatch"},
    {"InvalidNodeReference", "InvalidRlpNode", "InvalidTrieNode", "InvalidTriePath",
     "MissingAccountValue", "InvalidAccountValue"},
    {"InsufficientAccountBalance"}>>

\* the place in that order of the earliest check the witness violates, 0
\* when it violates none
FirstFailing ==
  IF NoteCountBad THEN 1
  ELSE IF NoteIndexBad THEN 2
  ELSE IF LengthsBad THEN 3
  ELSE IF AmountBad THEN 4
  ELSE IF RecipientBad THEN 5
  ELSE IF HasZeroAmount \/ TotalExceedsMax THEN 6
  ELSE IF DepthBad THEN 7
  ELSE IF ShapeBad THEN 8
  ELSE IF HeaderHashBad THEN 9
  ELSE IF HeaderShapeBad THEN 10
  ELSE IF HeaderNumberBad THEN 11
  ELSE IF TrieBad THEN 12
  ELSE IF BalanceBad THEN 13
  ELSE 0

\* C11: evaluate_claim returns the error of the earliest violated check, in
\* the order note count, note index, input array lengths, selected amount,
\* recipient hash, zero amount or total, proof depth, proof shape or node
\* size, block header hash, header shape, header number, trie proof, balance;
\* it returns no journal when a check is violated.
C11_EarliestViolation ==
  EvalReturned =>
    LET first == FirstFailing IN
    first # 0 => (~output.ret.ok /\ output.ret.err \in CheckErrors[first])

\* the witness passes the structural checks that come before the totals
StructuralChecksPass ==
  ~NoteCountBad /\ ~NoteIndexBad /\ ~LengthsBad /\ ~AmountBad /\ ~RecipientBad

\* C12: a witness that passes the structural checks is rejected with
\* InactiveNoteHasZeroAmount when one of its noteCount amounts is zero, and,
\* having no zero amount, with TotalAmountExceeded when the mathematical sum
\* of its amounts exceeds MAX_TOTAL_WEI, sums above 2^128 - 1 included.
C12_ZeroAmountAndTotal ==
  (EvalReturned /\ StructuralChecksPass) =>
    /\ HasZeroAmount => output.ret = Err("InactiveNoteHasZeroAmount")
    /\ (~HasZeroAmount /\ TotalExceedsMax) => output.ret = Err("TotalAmountExceeded")

\* C13: balance_gte_total(balance, total) is the comparison balance >= total
\* of the 256-bit big-endian balance with the 128-bit total; evaluate_claim
\* returns a journal only if the account's balance is at least the sum of
\* all noteCount amounts, and a witness whose only fault is a smaller
\* balance is rejected with InsufficientAccountBalance.
C13_BalanceCoversTotal ==
  /\ (input.fn = "balance_gte_total" /\ output.done)
       => (output.ret <=> ~Less(input.balance, Fill(16, 0) \o input.total))
  /\ (EvalReturned /\ output.ret.ok) => ~Less(AccountBalance, TotalOfNotes)
  /\ (EvalReturned /\ FirstFailing = 13) => output.ret = Err("InsufficientAccountBalance")

\* C13 witness: a journal is returned for two notes of 1 and 2 wei, the
\* second one claimed, and an account holding exactly 3 wei.
C13_Witness ==
  /\ EvalReturned
  /\ output.ret.ok
  /\ input.claim.note_count = 2
  /\ input.claim.amount = U128(<<2>>)
  /\ AccountBalance = Fill(31, 0) \o <<3>>

\* C21: the pre-image that compute_notes_hash hashes for the counted notes
\* has MAX_NOTES * 64 bytes and zeros in the slots of the notes not counted;
\* it equals the pre-image for the same notes followed by extra notes
\* exactly when every extra note has amount 0 and an all-zero recipient
\* hash, and equal pre-images give equal hashes.
C21_NotesHashPadding ==
  (input.fn = "compute_notes_hash" /\ output.done) =>
    LET zero == \A i \in 1..Len(input.extra) :
                  /\ input.extra[i].amount = Fill(16, 0)
                  /\ input.extra[i].recipient_hash = Fill(32, 0)
        buf == output.ret.counted_buf
    IN /\ Len(buf) = MAX_NOTES * 64
       /\ \A j \in (input.note_count * 64 + 1)..(MAX_NOTES * 64) : buf[j] = 0
       /\ (buf = output.ret.extended_buf) <=> zero
       /\ zero => output.ret.counted = output.ret.extended
       /\ output.ret.counted.ok /\ output.ret.extended.ok

\* C21 witness: two counted notes and two extra notes that are all zero, and
\* the two calls hashed one pre-image.
C21_Witness ==
  /\ input.fn = "compute_notes_hash" /\ output.done
  /\ input.note_count = 2
  /\ input.extra = <<Note(Fill(16, 0), Fill(32, 0)), Note(Fill(16, 0), Fill(32, 0))>>
  /\ output.ret.counted_buf = output.ret.extended_buf
  /\ output.ret.counted = output.ret.extended

\* the item at input.offset is in long form: the number of its length bytes
LengthOfLength ==
  LET prefix == input.bytes[input.offset + 1] IN
  IF prefix >= 248 THEN prefix - 247 ELSE prefix - 183

\* the payload length that the long-form item at input.offset declares
DeclaredLength ==
  BeValue(Slice(input.bytes, input.offset + 1, input.offset + 1 + LengthOfLength))

\* C24: decode_rlp_item returns InvalidRlpNode for every long-form item
\* whose payload offset plus declared length exceeds the length of the
\* input, however large the declared length is: it neither accepts the
\* item nor panics.
C24_LongFormOverrunRejected ==
  (input.fn = "decode_rlp_item" /\ output.done
     /\ input.offset + 1 + LengthOfLength + DeclaredLength > Len(input.bytes))
    => output.ret = Err("InvalidRlpNode")

\* the loop of verify_account_proof_and_get_balance, before an iteration
LoopAt == IF output = Pending THEN LoopState(0, 0, None) ELSE output

\* the elements of the node that the next iteration decodes, <<>> when there
\* is no such node or it is no list of strings
NextElements ==
  IF LoopAt.depth >= Len(input.proof_nodes) THEN <<>>
  ELSE LET e == decode_rlp_list_payload_items(input.proof_nodes[LoopAt.depth + 1]) IN
       IF e.ok THEN e.val ELSE <<>>

\* the counts of consumed nibbles and of processed nodes are in range
LoopCountsInRange ==
  (input.fn = "verify_account_proof_loop" /\ output # Pending) =>
    /\ output.key_index \in 0..64
    /\ output.depth \in 0..Len(input.proof_nodes)
    /\ output.done =>
         output.ret = verify_account_proof_and_get_balance(
                        input.state_root, input.target_address, input.proof_nodes)

\* an iteration goes on from a branch only by one nibble below the 64th, and
\* from a leaf or an extension only by nibbles up to the 64th; a branch reached
\* with 64 consumed nibbles ends the loop on its value slot, no child selected
LoopIterationInRange ==
  (input.fn = "verify_account_proof_loop" /\ ~output.done /\ output' # output) =>
    /\ output'.key_index >= LoopAt.key_index
    /\ output'.depth <= LoopAt.depth + 1
    /\ (Len(NextElements) = 17 /\ output'.key_index # LoopAt.key_index) =>
         /\ LoopAt.key_index < 64
         /\ output'.key_index = LoopAt.key_index + 1
         /\ hash_to_nibbles(keccak256(input.target_address))[LoopAt.key_index + 1] \in 0..15
    /\ (Len(NextElements) = 17 /\ LoopAt.key_index = 64) =>
         /\ output'.done
         /\ \/ output'.ret \in {Err("InvalidNodeReference"), Err("InvalidTriePath")}
            \/ output'.ret = IF Len(NextElements[17]) = 0
                             THEN Err("MissingAccountValue")
                             ELSE decode_account_balance(NextElements[17])
    /\ Len(NextElements) = 2 => output'.key_index <= 64

ValidDeposits ==
  {e \in input.dir : e.is_file /\ is_deposit_filename(e.name)
                       /\ e.content.kind = "deposit" /\ e.content.version = "v2"
                       /\ e.content.note_count \in 1..MAX_NOTES
                       /\ e.content.fields_parse /\ e.content.target_address # "mismatch"}

\* the regular files named <stem>.proof-<anything>.json
ProofsSharingStem(stem) ==
  {e.name : e \in {x \in input.dir : x.is_file /\ starts_with(x.name, stem \o ProofInfix)
                                        /\ ends_with(x.name, JsonSuffix)}}

\* the greatest of the names, none when there is none
GreatestName(names) ==
  IF names = {} THEN None
  ELSE Some(CHOOSE n \in names : \A m \in names \ {n} : StrLess(m, n))

ScanEntries == {output.ret[i] : i \in 1..Len(output.ret)}

\* C22: the index has one entry for each valid deposit file and no other entry,
\* in the order of the filenames; the entry of a deposit reports the
\* lexicographically greatest name among the proof files sharing its stem, or
\* none; the index is the one of the workspace without its invalid deposit
\* files.
C22_ScanCorrelatesProofs ==
  (input.fn = "scan_workspace" /\ output.done) =>
    /\ {entry.filename : entry \in ScanEntries} = {e.name : e \in ValidDeposits}
    /\ Len(output.ret) = Cardinality(ValidDeposits)
    /\ \A i \in 1..(Len(output.ret) - 1) :
         StrLess(output.ret[i].filename, output.ret[i + 1].filename)
    /\ \A entry \in ScanEntries :
         /\ entry.id \o JsonSuffix = entry.filename
         /\ entry.proof_file = GreatestName(ProofsSharingStem(entry.id))
         /\ entry.has_proof = entry.proof_file.some
    /\ output.ret = scan_workspace({e \in input.dir : is_deposit_filename(e.name)
                                                         => e \in ValidDeposits})

\* C22 witness: a valid deposit with several proofs beside an invalid deposit
\* and an orphan proof
C22_Witness ==
  /\ input.fn = "scan_workspace"
  /\ output.done
  /\ Len(output.ret) = 1
  /\ Cardinality(ProofsSharingStem(output.ret[1].id)) = 3
  /\ output.ret[1].proof_file = Some(ProofName(StemA, <<50>>))
  /\ \E e \in input.dir : is_deposit_filename(e.name) /\ e \notin ValidDeposits
  /\ \E e \in input.dir : e.name = ProofName(StemC, <<57>>)

\* the "number" of the block object is a string that parse_hex_u64 accepts
parse_hex_u64_ok(number) == number.type = "string" /\ parse_hex_u64(number.digits).ok

\* the node reported, as a hex string, the 32 bytes that the re-encoded header
\* of the block hashes to
ReportedHashVerified ==
  /\ input.block.hash.type = "string"
  /\ parse_hex_bytes(input.block.hash.digits)
       = Ok(keccak256(encode_block_header_rlp(input.block)))

\* C23: eth_get_block returns block data only when the Keccak256 of the
\* re-encoded header equals the hash that the node reported; when the block
\* number is readable and the reported hash is another one, is missing or is
\* not 32 bytes of hex, it fails with the block-hash-mismatch error.
C23_BlockHashVerified ==
  (input.fn = "eth_get_block" /\ output.done) =>
    /\ output.ret.ok => ReportedHashVerified
    /\ (~ReportedHashVerified /\ parse_hex_u64_ok(input.block.number)
          /\ (input.block.hash.type = "string"
                => parse_hex_bytes(input.block.hash.digits).ok))
         => output.ret = Err("block hash mismatch")

\* C23, the part that the code keeps: block data is never returned when the
\* node reported 32 bytes other than the hash of the re-encoded header, and
\* the hash of the block data is the hash of its header.
C23_DifferentHashRejected ==
  (input.fn = "eth_get_block" /\ output.done) =>
    /\ (input.block.hash.type = "string"
          /\ parse_hex_bytes(input.block.hash.digits).ok
          /\ Len(parse_hex_bytes(input.block.hash.digits).val) = 32
          /\ ~ReportedHashVerified)
         => output.ret \in {Err("block hash mismatch"), Err("missing block number"),
                            Err("invalid hex u64")}
    /\ output.ret.ok => output.ret.val.hash = keccak256(output.ret.val.header_rlp)

\* C25: a prove request that was answered 409, because the slot held a Queued
\* or Running job, has not renamed a proof file of the workspace to .bkup: no
\* rename by the force=true branch of that request is on record.
C25_RejectedProveLeavesWorkspace ==
  \A p \in Pids : sp[p].resp = "409" => <<"force_rename", p>> \notin dirtyBy

\* C26: a job whose pipeline was still executing when the cancel() that sent
\* its signal returned true is not Completed in the slot, has no
\* proof:completed event and has written no proof file.
C26_CancelledNeverCompletes ==
  \A p \in Pids :
    pipe[p].cancel_returned =>
      /\ ~(slotOwner = p /\ current.status = "Completed")
      /\ \A e \in events[p] : e.type # "proof:completed"
      /\ \A f \in proofFiles : f.by # p

\* C27: a DELETE /queue/current whose cancel() starts while the job in the slot
\* is Queued or Running finds a sender, and the signal it sends arrives in the
\* channel of the pipeline of that job: it neither finds no sender and goes on
\* to clear the slot, nor sends on the sender that an earlier job left behind.
C27_DeleteSignalsOwnPipeline ==
  [][\A c \in Cids :
       (cj[c].pc = "new" /\ cj'[c].pc # "new"
          /\ current # NoJob /\ current.status \in {"Queued", "Running"})
         => /\ cj'[c].pc = "mark"
            /\ cancel_tx = slotOwner
            /\ chan'[slotOwner] = "sent"]_vars

\* C28: a step of the pipeline or of the task of a prove request that changes
\* the job record of the slot (update_progress, complete, fail) changes a
\* record whose deposit_id is the deposit of that request.
C28_PipelineModifiesOwnJob ==
  [][\A p \in Pids :
       (pipe'[p].pc # pipe[p].pc /\ current' # current)
         => current.deposit_id = sp[p].deposit]_vars

\* C29: once the task of a prove request is over, the slot does not hold the
\* job of that request as Queued or Running: it holds it as Completed, Failed
\* or Cancelled, or it is empty, or it holds the job of another request.
C29_NoJobLeftRunning ==
  \A p \in Pids :
    (pipe[p].pc = "done" /\ slotOwner = p) => current.status \in Terminal

\* C29, the part that the code keeps: from some time on every task that was
\* spawned is over and the slot is empty or holds a Completed, Failed or
\* Cancelled job.
C29_TasksEndAndSlotSettles ==
  <>[](/\ \A p \in Pids : pipe[p].pc \in {"idle", "done"}
       /\ current = NoJob \/ current.status \in Terminal)

====
